---- MODULE Spec2Model ----
(***************************************************************************)
(* A model of ClassNamePicker: the StudentPool bitmap state machine        *)
(* (StudentModels.py), the ConfigManager persistence layer                 *)
(* (PickerConfigManager.py) and the save debouncing of the main window     *)
(* (ClassNamePicker主程序.py).                                              *)
(*                                                                         *)
(* Text is modelled as a sequence of one-character strings, a file as the  *)
(* sequence of its lines (without the line terminator), a bitarray as a    *)
(* function from 0..total-1 to BOOLEAN and a deque as a sequence.          *)
(***************************************************************************)
EXTENDS Integers, Sequences, FiniteSets, TLC

VARIABLES
    \* ---- StudentPool (StudentModels.py, __slots__) ----
    students,        \* _students: 0..total-1 -> Student
    name_to_idx,     \* _name_to_idx: original_name -> index
    female_bitmap,   \* _female_bitmap
    bit_available,   \* _bit_available
    bit_picked,      \* _bit_picked
    no_duplicate,    \* _no_duplicate
    recent_queue,    \* _recent_queue
    recent_bitmap,   \* _recent_bitmap
    \* ---- observation of the calls made on the pool ----
    last,            \* the most recent call on the pool and its result
    taken,           \* indices returned by a pick(remove=True) and not reset since
    window,          \* indices returned by the successful picks since the last
                     \* constructor / reset / resize, newest last
    \* ---- ConfigManager (PickerConfigManager.py) ----
    config_file,     \* CONFIG_FILE on disk: [kind, text]
    tmp_file,        \* CONFIG_FILE.with_suffix('.tmp') on disk
    config_cache,    \* _config_cache: None or a mapping
    last_save_hash,  \* _last_save_hash: None or a digest
    \* ---- observation of the calls made on ConfigManager ----
    last_written,    \* the text most recently written to CONFIG_FILE by this process
    cfg_obs,         \* the most recent call: its argument, the state before, the outcome
    \* ---- PickName._load_student_data (ClassNamePicker主程序.py) ----
    names_file,      \* NAMES_FILE: its lines
    g_names_file,    \* G_NAMES_FILE: its lines
    retry_count,     \* retry_count of the load loop
    load_pc,         \* "loop", "built" (pool assigned), "exit" (sys.exit), "crashed"
    load_obs,        \* the last attempt: the invalid names found and those reported
    \* ---- PickName.request_save / SaveDebouncer (ClassNamePicker主程序.py) ----
    save_queue,      \* _save_queue: the set of pending reasons
    timer_active,    \* _debounce_timer.timer.isActive()
    timer_deadline,  \* the time (ms) at which the single-shot timer is due
    is_pending,      \* _debounce_timer._is_pending
    last_flush_time, \* _debounce_timer._last_flush_time (ms)
    now,             \* time.time() * 1000, counted from the construction
    geometry,        \* what saveGeometry() returns now
    is_moving,       \* _is_moving
    ui_picked_count, \* self.picked_count
    app_alive,       \* FALSE once an exception that left a slot has ended the program
    save_obs,        \* the flush made by the last step, if it made one
    geo_req,         \* the latest request_save('geometry'): how long ago (up to the
                     \* debounce delay), and the geometry then
    last_req,        \* the latest request_save: how long ago (up to the debounce
                     \* delay)
    close_pc,        \* closeEvent: "idle", "stopped" once it has stopped the timer,
                     \* "flushed" after its flush, "hidden" once the window is hidden
    \* ---- the objects ConfigManager and its callers hold ----
    heap,            \* the live dict and list objects, by reference
    obj_cache,       \* _config_cache: the reference of a dict, or NoRef
    obj_hash,        \* _last_save_hash
    obj_file,        \* CONFIG_FILE
    held,            \* per caller, the mapping it got from load_cached and holds
    obj_last,        \* the last call made on the objects
    \* ---- the pick controls of the main window (ClassNamePicker主程序.py) ----
    pick_button,     \* pick_name_button.isEnabled()
    reset_button,    \* reset_button.isEnabled()
    pick_again,      \* pick_again_checkbox.isChecked()
    ui_available,    \* how many students student_pool can still give out
    animating,       \* animation_timer.isActive()
    confirm_dialog,  \* _confirm_dialog is open
    speech_thread,   \* the SpeechThread last started: [state, emits]
    finished_events, \* finished signals queued for the main thread
    pick_pc,         \* how far the last pick has come: "idle", "animating", "speaking"
    ui_obs,          \* the last handler the main thread or the worker ran
    \* ---- FloatingWindowManager (FloatingWindowManagerPy.py) ----
    fw_revision,     \* _config_revision
    fw_snapshot,     \* _config_snapshot
    fw_handed,       \* the (revision, settings) pairs _sync_configuration was handed
    fw_obs,          \* the last call of _sync_configuration
    \* ---- PickName's no_duplicate (main program) ----
    self_no_duplicate,    \* self.no_duplicate
    no_duplicate_cache,   \* self.no_duplicate_cache
    pick_again_checked,   \* pick_again_checkbox.isChecked()
    config_no_duplicate   \* KEY_NO_DUPLICATE of the cached configuration

poolVars == << students, name_to_idx, female_bitmap, bit_available, bit_picked,
               no_duplicate, recent_queue, recent_bitmap >>
obsVars == << last, taken, window >>
cfgVars == << config_file, tmp_file, config_cache, last_save_hash, last_written,
              cfg_obs >>
loadVars == << names_file, g_names_file, retry_count, load_pc, load_obs >>
saveVars == << save_queue, timer_active, timer_deadline, is_pending, last_flush_time,
              now, geometry, is_moving, ui_picked_count, app_alive, save_obs, geo_req,
              last_req, close_pc >>
objVars == << heap, obj_cache, obj_hash, obj_file, held, obj_last >>
uiVars == << pick_button, reset_button, pick_again, ui_available, animating,
             confirm_dialog, speech_thread, finished_events, pick_pc, ui_obs >>
fwVars == << fw_revision, fw_snapshot, fw_handed, fw_obs >>
winVars == << self_no_duplicate, no_duplicate_cache, pick_again_checked, config_no_duplicate >>
vars == << poolVars, obsVars, cfgVars, loadVars, saveVars, objVars, uiVars, fwVars, winVars >>

----------------------------------------------------------------------------
\* Bounds of the model.

\* Largest roster of the pool specification.
PoolSize == 3
\* Largest no-repeat window size given to the constructor or the setter.
MaxNoDup == 2
\* Roster size of the exhaustion scenario (A..E with female C, D).
ExhaustSize == 5
\* Saves are followed up to this revision.
MaxRevision == 3
\* Largest value a caller stores under a key.
MaxValue == 1
\* Number of distinct window geometries.
MaxGeometry == 2
\* Time (ms since construction) up to which the save layer is followed.
MaxTime == 1200

----------------------------------------------------------------------------
\* Text helpers.

Whitespace == {" ", "\t"}

RECURSIVE LStrip(_)
LStrip(s) == IF s # << >> /\ Head(s) \in Whitespace THEN LStrip(Tail(s)) ELSE s

RECURSIVE RStrip(_)
RStrip(s) ==
    IF s # << >> /\ s[Len(s)] \in Whitespace THEN RStrip(SubSeq(s, 1, Len(s) - 1)) ELSE s

\* str.strip()
Strip(s) == RStrip(LStrip(s))

\* str.startswith(c) for a one-character prefix
StartsWith(s, c) == s # << >> /\ Head(s) = c

Range(seq) == {seq[k] : k \in 1 .. Len(seq)}
Max(a, b) == IF a >= b THEN a ELSE b
Min(a, b) == IF a <= b THEN a ELSE b

----------------------------------------------------------------------------
\* Gender and Student (StudentModels.py).

MALE == "male"
FEMALE == "female"
UNKNOWN == "unknown"
Gender == {MALE, FEMALE, UNKNOWN}

Student(line, gender) ==
    [original_name |-> line, display_name |-> Strip(line), gender |-> gender]

\* PickName._parse_student_file: one Student per line that is neither blank nor a
\* comment after stripping; the identity is the raw line.
RECURSIVE parse_student_file(_, _)
parse_student_file(lines, default_gender) ==
    IF lines = << >> THEN << >>
    ELSE LET line == Head(lines)
             stripped == Strip(line)
             rest == parse_student_file(Tail(lines), default_gender)
         IN IF stripped = << >> \/ StartsWith(stripped, "#")
            THEN rest
            ELSE << Student(line, default_gender) >> \o rest

----------------------------------------------------------------------------
\* bitarray operations.

Indices(total) == 0 .. (total - 1)
SetAll(total, v) == [i \in Indices(total) |-> v]
BitAnd(a, b) == [i \in DOMAIN a |-> a[i] /\ b[i]]
BitOr(a, b) == [i \in DOMAIN a |-> a[i] \/ b[i]]
BitNot(a) == [i \in DOMAIN a |-> ~a[i]]
Count(a) == Cardinality({i \in DOMAIN a : a[i]})

\* list -> 0-based function
ZeroBased(seq) == [i \in Indices(Len(seq)) |-> seq[i + 1]]

----------------------------------------------------------------------------
\* StudentPool.__init__

\* {s.original_name: idx for idx, s in enumerate(all_students)}: for an identity
\* that occurs more than once the last index wins.
NameToIdx(all_students) ==
    LET names == {all_students[k].original_name : k \in 1 .. Len(all_students)}
    IN [n \in names |->
          CHOOSE i \in Indices(Len(all_students)) :
              /\ all_students[i + 1].original_name = n
              /\ \A j \in Indices(Len(all_students)) :
                     all_students[j + 1].original_name = n => j <= i]

\* The female bitmap: all zero, then one bit per female entry whose identity is in
\* the roster; the other entries are skipped.
FemaleBitmap(all_students, female_students) ==
    LET map == NameToIdx(all_students)
        hit == {map[female_students[k].original_name] :
                   k \in {k \in 1 .. Len(female_students) :
                             female_students[k].original_name \in DOMAIN map}}
    IN [i \in Indices(Len(all_students)) |-> i \in hit]

\* The fields of a pool as the constructor leaves them (all_students is not empty:
\* the constructor raises ValueError on an empty list).
NewPool(all_students, female_students, nd) ==
    LET total == Len(all_students)
    IN [students      |-> ZeroBased(all_students),
        name_to_idx   |-> NameToIdx(all_students),
        female_bitmap |-> FemaleBitmap(all_students, female_students),
        bit_available |-> SetAll(total, TRUE),
        bit_picked    |-> SetAll(total, FALSE),
        no_duplicate  |-> Max(0, nd),
        recent_queue  |-> << >>,
        recent_bitmap |-> SetAll(total, FALSE)]

Total == Cardinality(DOMAIN students)

----------------------------------------------------------------------------
\* StudentPool._get_candidate_bitmap, get_stats, get_available_names

\* The mask of a gender filter: the female bitmap, or its complement.
GenderMask(gender) ==
    IF gender = FEMALE THEN female_bitmap ELSE BitNot(female_bitmap)

\* get_stats counting the available bits without the gender mask
get_stats_unmasked(gender) ==
    IF gender = UNKNOWN
    THEN << Total, Count(bit_available), Count(bit_picked) >>
    ELSE << Count(GenderMask(gender)), Count(bit_available), Count(bit_picked) >>

\* _get_candidate_bitmap that ignores the gender filter
get_candidate_bitmap_any(gender) == bit_available

get_candidate_bitmap(gender) ==
    IF gender = UNKNOWN THEN bit_available
    ELSE IF gender = FEMALE THEN BitAnd(bit_available, female_bitmap)
    ELSE BitAnd(bit_available, BitNot(female_bitmap))

\* (total, available, picked)
get_stats(gender) ==
    IF gender = UNKNOWN
    THEN << Total, Count(bit_available), Count(bit_picked) >>
    ELSE LET gender_mask == GenderMask(gender)
         IN << Count(gender_mask),
               Count(BitAnd(bit_available, gender_mask)),
               Count(BitAnd(bit_picked, gender_mask)) >>

get_available_names ==
    {students[i].original_name : i \in {i \in DOMAIN students : bit_available[i]}}

get_picked_names ==
    {students[i].original_name : i \in {i \in DOMAIN students : bit_picked[i]}}

----------------------------------------------------------------------------
\* StudentPool.pick

\* pick without the exclusion of the recent window
PickCandidates_with_recent(gender) == get_candidate_bitmap(gender)

\* pick(remove=True) that forgets to clear the available bit
AvailableAfterPick_kept(picked_idx, remove) == bit_available

\* pick that sets the new recent bit without clearing the evicted one
RecentBitmapAfterPick_no_evict(picked_idx) ==
    IF no_duplicate > 0 THEN [recent_bitmap EXCEPT ![picked_idx] = TRUE] ELSE recent_bitmap

\* Steps 1-2: the candidate bitmap, less the recent window when it is enabled.
PickCandidates(gender) ==
    IF no_duplicate > 0
    THEN BitAnd(get_candidate_bitmap(gender), BitNot(recent_bitmap))
    ELSE get_candidate_bitmap(gender)

\* A scan that counts the set bits from the highest index down
KthSetBit_from_top(candidates, target) ==
    CHOOSE idx \in DOMAIN candidates :
        /\ candidates[idx]
        /\ Cardinality({j \in DOMAIN candidates : candidates[j] /\ j > idx}) = target

\* Step 5: the index of the target-th set bit, counting from 0 in index order.
KthSetBit(candidates, target) ==
    CHOOSE idx \in DOMAIN candidates :
        /\ candidates[idx]
        /\ Cardinality({j \in DOMAIN candidates : candidates[j] /\ j < idx}) = target

\* pick(remove=True) that does not set the picked bit
PickedAfterPick_unset(picked_idx, remove) == bit_picked

\* Step 6: the available and picked bitmaps after the pick.
AvailableAfterPick(picked_idx, remove) ==
    IF remove THEN [bit_available EXCEPT ![picked_idx] = FALSE] ELSE bit_available

PickedAfterPick(picked_idx, remove) ==
    IF remove THEN [bit_picked EXCEPT ![picked_idx] = TRUE] ELSE bit_picked

\* Step 7: the recent queue after the pick: the oldest entry leaves a full queue,
\* then the picked index is appended.
QueueAfterPick(picked_idx) ==
    IF no_duplicate > 0
    THEN (IF Len(recent_queue) >= no_duplicate THEN Tail(recent_queue) ELSE recent_queue)
             \o << picked_idx >>
    ELSE recent_queue

\* Step 7: the recent bitmap after the pick.
RecentBitmapAfterPick(picked_idx) ==
    IF no_duplicate > 0
    THEN LET cleared == IF Len(recent_queue) >= no_duplicate
                        THEN [recent_bitmap EXCEPT ![Head(recent_queue)] = FALSE]
                        ELSE recent_bitmap
         IN [cleared EXCEPT ![picked_idx] = TRUE]
    ELSE recent_bitmap

\* The last (no_duplicate + 1) successful picks since the last reset or resize.
WindowAfterPick(picked_idx) ==
    IF no_duplicate > 0
    THEN LET w == Append(window, picked_idx)
         IN SubSeq(w, Max(1, Len(w) - no_duplicate), Len(w))
    ELSE window

\* How often a participant was returned by pick(remove=True) since the last reset
\* of its available bit (2 stands for "twice or more").
TakenAfterPick(picked_idx, remove) ==
    IF remove THEN [taken EXCEPT ![picked_idx] = Min(2, @ + 1)] ELSE taken

\* A failing pick that empties the recent window before it raises
PickFail_clears_recent(gender, remove) ==
    /\ Count(PickCandidates(gender)) = 0
    /\ last' = [op |-> "pick", gender |-> gender, remove |-> remove, ok |-> FALSE,
                idx |-> -1, names |-> {}, target |-> -1,
                queue_before |-> << >>]
    /\ recent_queue' = << >>
    /\ recent_bitmap' = SetAll(Total, FALSE)
    /\ UNCHANGED << students, name_to_idx, female_bitmap, bit_available, bit_picked,
                    no_duplicate, taken, window >>

\* pick(gender, remove) raising IndexError: no candidate; nothing is changed.
PickFail(gender, remove) ==
    /\ Count(PickCandidates(gender)) = 0
    /\ last' = [op |-> "pick", gender |-> gender, remove |-> remove, ok |-> FALSE,
                idx |-> -1, names |-> {}, target |-> -1,
                queue_before |-> << >>]
    /\ UNCHANGED << poolVars, taken, window >>

\* pick(gender, remove) returning a participant; target is the random draw.
PickOk(gender, remove) ==
    LET candidates == PickCandidates(gender)
        available_count == Count(candidates)
    IN /\ available_count > 0
       /\ \E target \in 0 .. (available_count - 1) :
            LET picked_idx == KthSetBit(candidates, target)
            IN /\ bit_available' = AvailableAfterPick(picked_idx, remove)
               /\ bit_picked' = PickedAfterPick(picked_idx, remove)
               /\ recent_queue' = QueueAfterPick(picked_idx)
               /\ recent_bitmap' = RecentBitmapAfterPick(picked_idx)
               /\ last' = [op |-> "pick", gender |-> gender, remove |-> remove,
                           ok |-> TRUE, idx |-> picked_idx, names |-> {},
                           target |-> target, queue_before |-> << >>]
               /\ taken' = TakenAfterPick(picked_idx, remove)
               /\ window' = WindowAfterPick(picked_idx)
       /\ UNCHANGED << students, name_to_idx, female_bitmap, no_duplicate >>

----------------------------------------------------------------------------
\* StudentPool.reset, restore_available_names, no_duplicate setter

AvailableAfterReset(gender) ==
    IF gender = UNKNOWN THEN SetAll(Total, TRUE)
    ELSE BitOr(bit_available, GenderMask(gender))

\* reset that clears every picked bit whatever the gender
PickedAfterReset_all(gender) == SetAll(Total, FALSE)

PickedAfterReset(gender) ==
    IF gender = UNKNOWN THEN SetAll(Total, FALSE)
    ELSE BitAnd(bit_picked, BitNot(GenderMask(gender)))

\* reset that keeps the other gender's entries in the recent queue
QueueAfterReset_scoped(gender) ==
    IF gender = UNKNOWN THEN << >>
    ELSE SelectSeq(recent_queue, LAMBDA i : ~GenderMask(gender)[i])

\* self._recent_queue.clear()
QueueAfterReset(gender) == << >>

\* self._recent_bitmap.setall(False)
RecentBitmapAfterReset(gender) == SetAll(Total, FALSE)

Reset(gender) ==
    /\ bit_available' = AvailableAfterReset(gender)
    /\ bit_picked' = PickedAfterReset(gender)
    /\ recent_queue' = QueueAfterReset(gender)
    /\ recent_bitmap' = RecentBitmapAfterReset(gender)
    /\ last' = [op |-> "reset", gender |-> gender, remove |-> FALSE, ok |-> TRUE,
                idx |-> -1, names |-> {}, target |-> -1,
                queue_before |-> recent_queue]
    /\ taken' = [i \in DOMAIN taken |->
                    IF gender = UNKNOWN \/ GenderMask(gender)[i] THEN 0 ELSE taken[i]]
    /\ window' = << >>
    /\ UNCHANGED << students, name_to_idx, female_bitmap, no_duplicate >>

\* restore that does not clear the available bitmap first
AvailableAfterRestore_merged(names) ==
    LET found == {name_to_idx[n] : n \in names \cap DOMAIN name_to_idx}
    IN [i \in DOMAIN students |-> bit_available[i] \/ i \in found]

\* All unavailable and picked, then every name found in the map is made available
\* and not picked.
AvailableAfterRestore(names) ==
    LET found == {name_to_idx[n] : n \in names \cap DOMAIN name_to_idx}
    IN [i \in DOMAIN students |-> i \in found]

PickedAfterRestore(names) ==
    LET found == {name_to_idx[n] : n \in names \cap DOMAIN name_to_idx}
    IN [i \in DOMAIN students |-> i \notin found]

RestoreAvailableNames(names) ==
    /\ bit_available' = AvailableAfterRestore(names)
    /\ bit_picked' = PickedAfterRestore(names)
    /\ last' = [op |-> "restore", gender |-> UNKNOWN, remove |-> FALSE, ok |-> TRUE,
                idx |-> -1, names |-> names, target |-> -1,
                queue_before |-> << >>]
    \* the available set is replaced as a whole: the count of returns starts again
    /\ taken' = [i \in DOMAIN taken |-> 0]
    /\ UNCHANGED << students, name_to_idx, female_bitmap, no_duplicate,
                    recent_queue, recent_bitmap, window >>

\* current[-n:] for n > 0
LastN(seq, n) == SubSeq(seq, Max(1, Len(seq) - n + 1), Len(seq))

\* A resize that keeps the oldest entries instead of the newest
QueueAfterResize_oldest(value) ==
    IF Max(0, value) > 0
    THEN SubSeq(recent_queue, 1, Min(Len(recent_queue), Max(0, value)))
    ELSE << >>

QueueAfterResize(value) ==
    IF Max(0, value) > 0 THEN LastN(recent_queue, Max(0, value)) ELSE << >>

RecentBitmapAfterResize(value) ==
    LET q == QueueAfterResize(value)
    IN [i \in DOMAIN students |-> \E k \in 1 .. Len(q) : q[k] = i]

SetNoDuplicate(value) ==
    /\ no_duplicate' = Max(0, value)
    /\ recent_queue' = QueueAfterResize(value)
    /\ recent_bitmap' = RecentBitmapAfterResize(value)
    /\ last' = [op |-> "resize", gender |-> UNKNOWN, remove |-> FALSE, ok |-> TRUE,
                idx |-> value, names |-> {}, target |-> -1,
                queue_before |-> recent_queue]
    /\ window' = << >>
    /\ UNCHANGED << students, name_to_idx, female_bitmap, bit_available, bit_picked,
                    taken >>

----------------------------------------------------------------------------
\* ConfigManager (PickerConfigManager.py).  Every value of the mapping is modelled
\* as an integer: a window geometry blob by a number, None by 0.

None == << >>

KEY_INTERNAL_REVISION == "_revision"
KEY_FLOATING_X_SIZE == "floating_x_size"
KEY_PICKED_COUNT == "picked_count"
KEY_WINDOW_GEOMETRY_QT == "window_geometry_qt"

DEFAULT_CONFIG ==
    (KEY_INTERNAL_REVISION :> 0) @@ (KEY_PICKED_COUNT :> 0) @@ (KEY_WINDOW_GEOMETRY_QT :> 0)

\* The keys in the order sort_keys=True writes them.
SortedKeys ==
    << KEY_INTERNAL_REVISION, KEY_FLOATING_X_SIZE, KEY_PICKED_COUNT,
       KEY_WINDOW_GEOMETRY_QT >>

\* json.dumps(config, sort_keys=True): the (key, value) pairs in key order.
RECURSIVE DumpKeys(_, _)
DumpKeys(config, keys) ==
    IF keys = << >> THEN << >>
    ELSE (IF Head(keys) \in DOMAIN config
          THEN << << Head(keys), config[Head(keys)] >> >>
          ELSE << >>) \o DumpKeys(config, Tail(keys))

Dumps(config) == DumpKeys(config, SortedKeys)

\* json.loads of a text Dumps wrote.
Loads(text) ==
    [k \in {text[i][1] : i \in 1 .. Len(text)} |->
        (CHOOSE pair \in Range(text) : pair[1] = k)[2]]

\* hashlib.sha256(text).hexdigest(): distinct texts have distinct digests.
Sha256(text) == << "sha256", text >>

\* {**DEFAULT_CONFIG, **config}
MergeDefaults(config) ==
    [k \in DOMAIN DEFAULT_CONFIG \cup DOMAIN config |->
        IF k \in DOMAIN config THEN config[k] ELSE DEFAULT_CONFIG[k]]

\* config.get(KEY_INTERNAL_REVISION, 0)
Revision(config) ==
    IF KEY_INTERNAL_REVISION \in DOMAIN config THEN config[KEY_INTERNAL_REVISION] ELSE 0

MissingFile == [kind |-> "missing", text |-> << >>]
GarbageFile == [kind |-> "garbage", text |-> << >>]
JsonFile(text) == [kind |-> "json", text |-> text]

\* The state of the manager and its files as one value.
ConfigState == [file |-> config_file, tmp |-> tmp_file, cache |-> config_cache,
                hash |-> last_save_hash]

\* How the file operations of a save end.
IoOutcomes == {"ok", "write_fails", "replace_fails"}

\* save_atomic that remembers the digest of the content as passed, before the bump
save_atomic_hash_before_bump(cs, config, io) ==
    LET config_str == Dumps(config)
        current_hash == Sha256(config_str)
        config_copy == [k \in DOMAIN config \cup {KEY_INTERNAL_REVISION} |->
                           IF k = KEY_INTERNAL_REVISION THEN Revision(config) + 1
                           ELSE config[k]]
        new_str == Dumps(config_copy)
    IN IF current_hash = cs.hash
       THEN [cs |-> cs, outcome |-> "noop"]
       ELSE IF io = "write_fails"
       THEN [cs |-> [cs EXCEPT !.tmp = GarbageFile], outcome |-> "raised"]
       ELSE IF io = "replace_fails"
       THEN [cs |-> [cs EXCEPT !.tmp = JsonFile(new_str)], outcome |-> "raised"]
       ELSE [cs |-> [file |-> JsonFile(new_str), tmp |-> MissingFile,
                     cache |-> config_copy, hash |-> current_hash],
             outcome |-> "written"]

\* save_atomic that updates the cache and the digest before it touches the files
save_atomic_cache_first(cs, config, io) ==
    LET config_str == Dumps(config)
        current_hash == Sha256(config_str)
        config_copy == [k \in DOMAIN config \cup {KEY_INTERNAL_REVISION} |->
                           IF k = KEY_INTERNAL_REVISION THEN Revision(config) + 1
                           ELSE config[k]]
        new_str == Dumps(config_copy)
    IN IF current_hash = cs.hash
       THEN [cs |-> cs, outcome |-> "noop"]
       ELSE IF io = "write_fails"
       THEN [cs |-> [cs EXCEPT !.tmp = GarbageFile, !.cache = config_copy,
                                !.hash = Sha256(new_str)],
             outcome |-> "raised"]
       ELSE IF io = "replace_fails"
       THEN [cs |-> [cs EXCEPT !.tmp = JsonFile(new_str), !.cache = config_copy,
                                !.hash = Sha256(new_str)],
             outcome |-> "raised"]
       ELSE [cs |-> [file |-> JsonFile(new_str), tmp |-> MissingFile,
                     cache |-> config_copy, hash |-> Sha256(new_str)],
             outcome |-> "written"]

\* save_atomic that writes the live file directly, without a temporary file
save_atomic_in_place(cs, config, io) ==
    LET config_str == Dumps(config)
        current_hash == Sha256(config_str)
        config_copy == [k \in DOMAIN config \cup {KEY_INTERNAL_REVISION} |->
                           IF k = KEY_INTERNAL_REVISION THEN Revision(config) + 1
                           ELSE config[k]]
        new_str == Dumps(config_copy)
    IN IF current_hash = cs.hash
       THEN [cs |-> cs, outcome |-> "noop"]
       ELSE IF io = "write_fails"
       THEN [cs |-> [cs EXCEPT !.file = GarbageFile], outcome |-> "raised"]
       ELSE IF io = "replace_fails"
       THEN [cs |-> [cs EXCEPT !.file = JsonFile(new_str)], outcome |-> "raised"]
       ELSE [cs |-> [file |-> JsonFile(new_str), tmp |-> MissingFile,
                     cache |-> config_copy, hash |-> Sha256(new_str)],
             outcome |-> "written"]

\* ConfigManager.save_atomic(config): the state after the call and how it ended
\* ("noop": the early return; "written"; "raised": an OSError leaves the call).
save_atomic(cs, config, io) ==
    LET config_str == Dumps(config)
        current_hash == Sha256(config_str)
        config_copy == [k \in DOMAIN config \cup {KEY_INTERNAL_REVISION} |->
                           IF k = KEY_INTERNAL_REVISION THEN Revision(config) + 1
                           ELSE config[k]]
        new_str == Dumps(config_copy)
    IN IF current_hash = cs.hash
       THEN [cs |-> cs, outcome |-> "noop"]
       ELSE IF io = "write_fails"
       THEN [cs |-> [cs EXCEPT !.tmp = GarbageFile], outcome |-> "raised"]
       ELSE IF io = "replace_fails"
       THEN [cs |-> [cs EXCEPT !.tmp = JsonFile(new_str)], outcome |-> "raised"]
       ELSE [cs |-> [file |-> JsonFile(new_str), tmp |-> MissingFile,
                     cache |-> config_copy, hash |-> Sha256(new_str)],
             outcome |-> "written"]

\* ConfigManager._load_internal(): the mapping returned and the state the save made
\* inside it leaves.  Reading a missing file, decoding garbage and a failing save
\* all end in the except branch, which returns the defaults.
load_internal(cs, io) ==
    IF cs.file.kind # "json"
    THEN [cs |-> cs, value |-> DEFAULT_CONFIG, outcome |-> "noop"]
    ELSE LET config == MergeDefaults(Loads(cs.file.text))
             saved == save_atomic(cs, config, io)
         IN IF saved.outcome = "raised"
            THEN [cs |-> saved.cs, value |-> DEFAULT_CONFIG, outcome |-> "raised"]
            ELSE [cs |-> saved.cs, value |-> config, outcome |-> saved.outcome]

\* ConfigManager.load_cached(): the copy returned and the state after the call.
load_cached(cs, io) ==
    IF cs.cache = None
    THEN LET loaded == load_internal(cs, io)
         IN [cs |-> [loaded.cs EXCEPT !.cache = loaded.value], value |-> loaded.value,
             outcome |-> loaded.outcome]
    ELSE [cs |-> cs, value |-> cs.cache, outcome |-> "noop"]

\* ConfigManager.initialize(): a missing config file is created from the defaults.
initialize(cs, io) ==
    IF cs.file.kind = "missing" THEN save_atomic(cs, DEFAULT_CONFIG, io).cs ELSE cs

ConfigStateIs(cs) ==
    /\ config_file = cs.file
    /\ tmp_file = cs.tmp
    /\ config_cache = cs.cache
    /\ last_save_hash = cs.hash

ConfigStateBecomes(cs) ==
    /\ config_file' = cs.file
    /\ tmp_file' = cs.tmp
    /\ config_cache' = cs.cache
    /\ last_save_hash' = cs.hash

\* The text now in CONFIG_FILE, when a save of this process put it there.
WrittenAfter(outcome, cs) ==
    IF outcome = "written" THEN cs.file.text ELSE last_written

\* A caller reads the configuration: config = ConfigManager.load_cached().
LoadCached(io) ==
    LET got == load_cached(ConfigState, io)
    IN /\ ConfigStateBecomes(got.cs)
       /\ last_written' = WrittenAfter(got.outcome, got.cs)
       /\ cfg_obs' = [op |-> "load", arg |-> << >>, pre |-> ConfigState,
                      pre_written |-> last_written, outcome |-> got.outcome,
                      value |-> got.value]

\* A caller changes one key: config = load_cached(); config[key] = value;
\* save_atomic(config).
UpdateConfig(key, value, io_load, io) ==
    LET got == load_cached(ConfigState, io_load)
        config == [got.value EXCEPT ![key] = value]
        saved == save_atomic(got.cs, config, io)
    IN /\ Revision(got.value) < MaxRevision
       /\ ConfigStateBecomes(saved.cs)
       /\ last_written' = WrittenAfter(saved.outcome, saved.cs)
       /\ cfg_obs' = [op |-> "save", arg |-> Dumps(config), pre |-> got.cs,
                      pre_written |-> WrittenAfter(got.outcome, got.cs),
                      outcome |-> saved.outcome, value |-> config]

\* The process is killed inside the save_atomic of such a change, while write_text
\* is writing the temporary file ("write_fails") or before os.replace
\* ("replace_fails"); the files stay as they are and the program is started again:
\* PickName.__init__ calls ConfigManager.initialize() with nothing cached.
SaveCrashes(key, value, point) ==
    LET got == load_cached(ConfigState, "ok")
        config == [got.value EXCEPT ![key] = value]
        saved == save_atomic(got.cs, config, point)
    IN /\ Revision(got.value) < MaxRevision
       /\ saved.outcome = "raised"
       /\ ConfigStateBecomes(initialize([file |-> saved.cs.file, tmp |-> saved.cs.tmp,
                                         cache |-> None, hash |-> None], "ok"))
       /\ last_written' = None
       /\ cfg_obs' = [op |-> "crash", arg |-> Dumps(config), pre |-> got.cs,
                      pre_written |-> WrittenAfter(got.outcome, got.cs),
                      outcome |-> "crashed", value |-> config]

\* The config file a process finds when it starts: none, an undecodable one, or
\* one an earlier run (possibly of an older version, with fewer keys) wrote.
StartFiles ==
    {MissingFile, GarbageFile,
     JsonFile(Dumps([DEFAULT_CONFIG EXCEPT ![KEY_INTERNAL_REVISION] = 1])),
     JsonFile(Dumps(KEY_PICKED_COUNT :> 1)),
     JsonFile(Dumps((KEY_INTERNAL_REVISION :> 2) @@ (KEY_PICKED_COUNT :> 1)
                        @@ (KEY_WINDOW_GEOMETRY_QT :> 1)))}

NoConfigCall == [op |-> "start", arg |-> << >>,
                 pre |-> [file |-> MissingFile, tmp |-> MissingFile, cache |-> None,
                          hash |-> None],
                 pre_written |-> None, outcome |-> "noop", value |-> DEFAULT_CONFIG]

\* The manager after PickName.__init__ has called ConfigManager.initialize().
ConfigInit ==
    \E f \in StartFiles :
        LET cs == initialize([file |-> f, tmp |-> MissingFile, cache |-> None,
                              hash |-> None], "ok")
        IN /\ ConfigStateIs(cs)
           /\ last_written = IF f.kind = "missing" THEN cs.file.text ELSE None
           /\ cfg_obs = NoConfigCall

\* The manager of a specification that does not use it.
ConfigIdle ==
    /\ ConfigStateIs(NoConfigCall.pre)
    /\ last_written = None
    /\ cfg_obs = NoConfigCall

ConfigValues == 0 .. MaxValue

----------------------------------------------------------------------------
\* PickName._load_student_data and ConfigManager._quick_fix_name_file.

MAX_RETRIES == 2

\* The order of characters (by code point) and of strings, for sorted().
Alphabet == << "\t", " ", "#", "A", "B", "C", "D", "E", "F", "G", "H", "Y", "Z", "x" >>
CharRank(c) == CHOOSE k \in 1 .. Len(Alphabet) : Alphabet[k] = c

RECURSIVE StrLess(_, _)
StrLess(a, b) ==
    IF b = << >> THEN FALSE
    ELSE IF a = << >> THEN TRUE
    ELSE IF Head(a) = Head(b) THEN StrLess(Tail(a), Tail(b))
    ELSE CharRank(Head(a)) < CharRank(Head(b))

RECURSIVE Sorted(_)
Sorted(set) ==
    IF set = {} THEN << >>
    ELSE LET least == CHOOSE a \in set : \A b \in set \ {a} : StrLess(a, b)
         IN << least >> \o Sorted(set \ {least})

CommentLine == << "#", "x" >>

\* {s.original_name for s in students}
OriginalNames(student_list) ==
    {student_list[k].original_name : k \in 1 .. Len(student_list)}

\* A loader that does not compare the two lists.
InvalidFemale_unchecked(all_students, female_students) == {}

\* invalid_female = female_names - all_names
InvalidFemale(all_students, female_students) ==
    OriginalNames(female_students) \ OriginalNames(all_students)

\* The names DataFixDialog lists: every invalid name, sorted.
DialogNames(invalid_names) == Range(Sorted(invalid_names))

\* {line.strip() for line in lines if line.strip() and not line.startswith('#')}
QuickFixNames(lines) ==
    {Strip(lines[k]) :
        k \in {k \in 1 .. Len(lines) :
                  Strip(lines[k]) # << >> /\ ~StartsWith(lines[k], "#")}}

\* _quick_fix_name_file(fix_type): the two files afterwards.
quick_fix_name_file(fix_type, names, g_names) ==
    LET all_set == QuickFixNames(names)
        g_set == QuickFixNames(g_names)
        invalid == g_set \ all_set
    IN IF invalid = {} THEN [names |-> names, g_names |-> g_names]
       ELSE IF fix_type = "add_to_all"
       THEN [names |-> << CommentLine >> \o Sorted(all_set \cup invalid),
             g_names |-> g_names]
       ELSE [names |-> names,
             g_names |-> << CommentLine >> \o Sorted(g_set \cap all_set)]

AllStudents == parse_student_file(names_file, UNKNOWN)
FemaleStudents == parse_student_file(g_names_file, FEMALE)

NoAttempt == [invalid |-> {}, reported |-> {}, attempts |-> 0]

\* One pass of the loop that finds invalid female names, shows the dialog and
\* repairs the files as the user chose; the loop then tries again.
LoadRepair(fix_type) ==
    /\ load_pc = "loop" /\ retry_count <= MAX_RETRIES
    /\ InvalidFemale(AllStudents, FemaleStudents) # {}
    /\ LET fixed == quick_fix_name_file(fix_type, names_file, g_names_file)
       IN /\ names_file' = fixed.names
          /\ g_names_file' = fixed.g_names
    /\ retry_count' = retry_count + 1
    /\ load_obs' = [invalid |-> InvalidFemale(AllStudents, FemaleStudents),
                    reported |-> DialogNames(InvalidFemale(AllStudents, FemaleStudents)),
                    attempts |-> load_obs.attempts + 1]
    /\ UNCHANGED << load_pc, poolVars, obsVars >>

\* One pass that finds invalid female names, after which the user chooses to quit
\* or the repair reports a failure: sys.exit(1).
LoadQuit ==
    /\ load_pc = "loop" /\ retry_count <= MAX_RETRIES
    /\ InvalidFemale(AllStudents, FemaleStudents) # {}
    /\ load_pc' = "exit"
    /\ load_obs' = [invalid |-> InvalidFemale(AllStudents, FemaleStudents),
                    reported |-> DialogNames(InvalidFemale(AllStudents, FemaleStudents)),
                    attempts |-> load_obs.attempts + 1]
    /\ UNCHANGED << names_file, g_names_file, retry_count, poolVars, obsVars >>

\* One pass that finds the lists consistent and builds the pool.
LoadBuild ==
    /\ load_pc = "loop" /\ retry_count <= MAX_RETRIES
    /\ InvalidFemale(AllStudents, FemaleStudents) = {}
    /\ AllStudents # << >>
    /\ LET pool == NewPool(AllStudents, FemaleStudents, 0)
       IN /\ students' = pool.students
          /\ name_to_idx' = pool.name_to_idx
          /\ female_bitmap' = pool.female_bitmap
          /\ bit_available' = pool.bit_available
          /\ bit_picked' = pool.bit_picked
          /\ no_duplicate' = pool.no_duplicate
          /\ recent_queue' = pool.recent_queue
          /\ recent_bitmap' = pool.recent_bitmap
    /\ taken' = [i \in Indices(Len(AllStudents)) |-> 0]
    /\ load_pc' = "built"
    /\ load_obs' = [invalid |-> {}, reported |-> {}, attempts |-> load_obs.attempts + 1]
    /\ UNCHANGED << names_file, g_names_file, retry_count, last, window >>

\* One pass on an empty roster: StudentPool raises ValueError, and the handler's
\* StudentPool(['加载失败'], ['加载失败']) raises in turn (a str has no
\* original_name), which nothing catches.
LoadEmpty ==
    /\ load_pc = "loop" /\ retry_count <= MAX_RETRIES
    /\ InvalidFemale(AllStudents, FemaleStudents) = {}
    /\ AllStudents = << >>
    /\ load_pc' = "crashed"
    /\ load_obs' = [invalid |-> {}, reported |-> {}, attempts |-> load_obs.attempts + 1]
    /\ UNCHANGED << names_file, g_names_file, retry_count, poolVars, obsVars >>

\* The retries are used up: sys.exit(1).
LoadGiveUp ==
    /\ load_pc = "loop" /\ retry_count > MAX_RETRIES
    /\ load_pc' = "exit"
    /\ UNCHANGED << names_file, g_names_file, retry_count, load_obs, poolVars, obsVars >>

\* The loader of a specification that does not use it.
LoadIdle ==
    /\ names_file = << >>
    /\ g_names_file = << >>
    /\ retry_count = 0
    /\ load_pc = "idle"
    /\ load_obs = NoAttempt

----------------------------------------------------------------------------
\* PickName.request_save, SaveDebouncer and PickName._flush_all_saves.

CONFIG_SAVE_DELAY == 300
MIN_INTERVAL == 1000
QUEUE_LIMIT == 5

Reasons == {"geometry", "state", "floating"}

\* The step in which time passes: half the debounce delay.
TimeStep == CONFIG_SAVE_DELAY \div 2

\* The geometries the window takes: saveGeometry() blobs, numbered from 1.
Geometries == 1 .. MaxGeometry

\* b64encode(self.saveGeometry()).decode('ascii'): a text that is never None (0).
GeometryData(blob) == blob

\* The debouncer's fields as one value.
Debouncer ==
    [active |-> timer_active, deadline |-> timer_deadline, pending |-> is_pending,
     last_flush |-> last_flush_time]

\* A stop that clears the pending flag and leaves the timer running
debouncer_stop_flag_only(d) == [d EXCEPT !.pending = FALSE]

\* SaveDebouncer.stop()
debouncer_stop(d) == [d EXCEPT !.active = FALSE, !.deadline = 0, !.pending = FALSE]

\* A start that notes the pending save and starts no timer
debouncer_start_flag_only(d, delay, t) == [d EXCEPT !.pending = TRUE]

\* SaveDebouncer.start(delay) at time t: QTimer.start restarts a running timer.
debouncer_start(d, delay, t) ==
    [d EXCEPT !.active = TRUE, !.deadline = t + delay, !.pending = TRUE]

\* _flush_all_saves, the comparison with the cached configuration: the keys whose
\* values differ.  Of the UI state only picked_count is kept; saving the results
\* (is_saving_results) is off.
flush_updates(queue, config, blob, picked_count) ==
    (IF "geometry" \in queue /\ config[KEY_WINDOW_GEOMETRY_QT] # GeometryData(blob)
     THEN {KEY_WINDOW_GEOMETRY_QT} ELSE {})
        \cup (IF queue \cap {"state", "floating"} # {}
                   /\ config[KEY_PICKED_COUNT] # picked_count
              THEN {KEY_PICKED_COUNT} ELSE {})

\* config.update(updates)
flush_config(config, updates, blob, picked_count) ==
    [k \in DOMAIN config |->
        IF k \notin updates THEN config[k]
        ELSE IF k = KEY_WINDOW_GEOMETRY_QT THEN GeometryData(blob)
        ELSE picked_count]

\* _flush_all_saves after ConfigManager.save_atomic(config) returned or raised: an
\* OSError is not the RuntimeError the handler catches, so it leaves the handler
\* with the queue cleared.
flush_saved(queue, updates, updated, saved) ==
    [queue |-> {}, cs |-> saved.cs, outcome |-> saved.outcome, updates |-> updates,
     reasons |-> queue, arg |-> Dumps(updated)]

\* A flush that saves whether or not a field differs
flush_write_always(queue, cs, updates, updated, io) ==
    flush_saved(queue, updates, updated, save_atomic(cs, updated, io))

\* _flush_all_saves from "if not updates" on.
flush_write(queue, cs, updates, updated, io) ==
    IF updates = {}
    THEN [queue |-> {}, cs |-> cs, outcome |-> "unchanged", updates |-> {},
          reasons |-> queue, arg |-> << >>]
    ELSE flush_saved(queue, updates, updated, save_atomic(cs, updated, io))

\* _flush_all_saves once config = ConfigManager.load_cached() is read.
flush_loaded(queue, got, updates, blob, picked_count, io) ==
    flush_write(queue, got.cs, updates,
                flush_config(got.value, updates, blob, picked_count), io)

\* _flush_all_saves once the queue is copied and cleared.
flush_queue(queue, got, blob, picked_count, io) ==
    flush_loaded(queue, got, flush_updates(queue, got.value, blob, picked_count),
                 blob, picked_count, io)

\* _flush_all_saves(): the queue and the manager afterwards, what the save did and
\* the keys it changed.
flush_all_saves(queue, cs, blob, picked_count, io) ==
    IF queue = {}
    THEN [queue |-> queue, cs |-> cs, outcome |-> "empty", updates |-> {},
          reasons |-> {}, arg |-> << >>]
    ELSE flush_queue(queue, load_cached(cs, io), blob, picked_count, io)

\* A request_save that leaves a running timer alone.
request_save_no_restart(queue, d, reasons, t) ==
    LET merged == (IF "geometry" \in reasons /\ "geometry" \in queue
                   THEN queue \ {"geometry"} ELSE queue) \cup reasons
    IN IF Cardinality(merged) > QUEUE_LIMIT
       THEN [queue |-> merged, deb |-> debouncer_stop(d), overflow |-> TRUE]
       ELSE [queue |-> merged,
             deb |-> IF d.active THEN d ELSE debouncer_start(d, CONFIG_SAVE_DELAY, t),
             overflow |-> FALSE]

\* A request_save that takes a queue of two reasons for an overlong one
request_save_urgent_at_two(queue, d, reasons, t) ==
    LET merged == (IF "geometry" \in reasons /\ "geometry" \in queue
                   THEN queue \ {"geometry"} ELSE queue) \cup reasons
    IN IF Cardinality(merged) > 1
       THEN [queue |-> merged, deb |-> debouncer_stop(d), overflow |-> TRUE]
       ELSE [queue |-> merged,
             deb |-> debouncer_start(debouncer_stop(d), CONFIG_SAVE_DELAY, t),
             overflow |-> FALSE]

\* request_save(*reasons) at time t, up to the flush of an overlong queue.
request_save(queue, d, reasons, t) ==
    LET merged == (IF "geometry" \in reasons /\ "geometry" \in queue
                   THEN queue \ {"geometry"} ELSE queue) \cup reasons
    IN IF Cardinality(merged) > QUEUE_LIMIT
       THEN [queue |-> merged, deb |-> debouncer_stop(d), overflow |-> TRUE]
       ELSE [queue |-> merged,
             deb |-> debouncer_start(debouncer_stop(d), CONFIG_SAVE_DELAY, t),
             overflow |-> FALSE]

DebouncerBecomes(d) ==
    /\ timer_active' = d.active
    /\ timer_deadline' = d.deadline
    /\ is_pending' = d.pending
    /\ last_flush_time' = d.last_flush

\* What a step did: the handler that ran (call) and the flush it made, if any.
NoFlush == [call |-> "none", op |-> "none", reasons |-> {}, outcome |-> "none",
            updates |-> {}]
NoFlushBy(call) == [NoFlush EXCEPT !.call = call]
NoRequest == [age |-> -1]

\* The program runs and no handler is in progress; its window is shown.
Running == app_alive /\ close_pc \in {"idle", "hidden"}
Visible == app_alive /\ close_pc = "idle"
NoGeometryRequest == [age |-> -1, geometry |-> 0, within |-> FALSE, flushes |-> 0]

\* The latest geometry request after request_save(*reasons) with the window at blob:
\* within says that the one before it was less than the delay ago and not yet flushed.
GeoReqAfterRequest(reasons, blob) ==
    IF "geometry" \in reasons
    THEN [age |-> 0, geometry |-> blob,
          within |-> /\ geo_req.age >= 0
                     /\ geo_req.age < CONFIG_SAVE_DELAY
                     /\ geo_req.flushes = 0,
          flushes |-> 0]
    ELSE geo_req

GeoReqAfterFlush(req, flushed) ==
    IF "geometry" \in flushed.reasons
    THEN [req EXCEPT !.flushes = Min(req.flushes + 1, 2)]
    ELSE req

\* What a flush leaves in the manager, and whether the program goes on: an
\* exception that leaves a slot ends a PyQt5 program unless a hook is installed.
FlushEffect(flushed, survives) ==
    /\ ConfigStateBecomes(flushed.cs)
    /\ last_written' = WrittenAfter(flushed.outcome, flushed.cs)
    /\ cfg_obs' = IF flushed.outcome \in {"written", "noop", "raised"}
                  THEN [op |-> "save", arg |-> flushed.arg, pre |-> ConfigState,
                        pre_written |-> last_written, outcome |-> flushed.outcome,
                        value |-> Loads(flushed.arg)]
                  ELSE cfg_obs
    /\ app_alive' = (flushed.outcome # "raised" \/ survives)

\* The flush as the properties see it.
FlushObserved(call, flushed) ==
    [call |-> call, op |-> "flush", reasons |-> flushed.reasons,
     outcome |-> flushed.outcome, updates |-> flushed.updates]

\* request_save(*reasons) called with the window at blob.
RequestSave(reasons, blob) ==
    \E req \in {request_save(save_queue, Debouncer, reasons, now)} :
        /\ DebouncerBecomes(req.deb)
        /\ last_req' = [age |-> 0]
        /\ UNCHANGED close_pc
        /\ IF req.overflow
           THEN \E io \in IoOutcomes, survives \in BOOLEAN :
                  \E flushed \in {flush_all_saves(req.queue, ConfigState, blob,
                                                  ui_picked_count, io)} :
                    /\ save_queue' = flushed.queue
                    /\ FlushEffect(flushed, survives)
                    /\ save_obs' = FlushObserved("request", flushed)
                    /\ geo_req' = GeoReqAfterFlush(GeoReqAfterRequest(reasons, blob),
                                                   flushed)
           ELSE /\ save_queue' = req.queue
                /\ save_obs' = NoFlushBy("request")
                /\ geo_req' = GeoReqAfterRequest(reasons, blob)
                /\ UNCHANGED << cfgVars, app_alive >>

\* resizeEvent: the window has a new size; request_save('geometry').
ResizeEvent(blob) ==
    /\ Visible
    /\ geometry' = blob
    /\ RequestSave({"geometry"}, blob)
    /\ UNCHANGED << now, is_moving, ui_picked_count >>

\* moveEvent outside a drag: the window has a new position; request_save('geometry').
MoveEvent(blob) ==
    /\ Visible /\ ~is_moving
    /\ geometry' = blob
    /\ RequestSave({"geometry"}, blob)
    /\ UNCHANGED << now, is_moving, ui_picked_count >>

\* mousePressEvent with the left button inside the window: a drag begins.
MousePressEvent ==
    /\ Visible
    /\ is_moving' = TRUE
    /\ save_obs' = NoFlush
    /\ UNCHANGED << save_queue, timer_active, timer_deadline, is_pending,
                    last_flush_time, now, geometry, ui_picked_count, app_alive,
                    geo_req, last_req, close_pc, cfgVars >>

\* mouseMoveEvent during a drag: self.move(...), whose moveEvent requests no save.
MouseMoveEvent(blob) ==
    /\ Visible /\ is_moving
    /\ geometry' = blob
    /\ save_obs' = NoFlush
    /\ UNCHANGED << save_queue, timer_active, timer_deadline, is_pending,
                    last_flush_time, now, is_moving, ui_picked_count, app_alive,
                    geo_req, last_req, close_pc, cfgVars >>

\* mouseReleaseEvent ending a drag: the window may jump back onto the screen, then
\* request_save('geometry').
MouseReleaseEvent(blob) ==
    /\ Visible /\ is_moving
    /\ geometry' = blob
    /\ is_moving' = FALSE
    /\ RequestSave({"geometry"}, blob)
    /\ UNCHANGED << now, ui_picked_count >>

\* The picked count changes and _save_application_state() is called.
SaveApplicationState(value) ==
    /\ Visible
    /\ ui_picked_count' = value
    /\ RequestSave({"state"}, geometry)
    /\ UNCHANGED << now, geometry, is_moving >>

\* SaveDebouncer._on_timeout when the timer is due: re-arm for the rest of the
\* minimum interval, or note the time and run _flush_all_saves.
Timeout(io, survives) ==
    /\ Running
    /\ timer_active /\ now >= timer_deadline
    /\ Revision(config_cache) < MaxRevision
    /\ IF now - last_flush_time < MIN_INTERVAL
       THEN /\ survives /\ io = "ok"
            /\ DebouncerBecomes(debouncer_start([Debouncer EXCEPT !.pending = FALSE],
                                    MIN_INTERVAL - (now - last_flush_time), now))
            /\ save_obs' = NoFlushBy("timeout")
            /\ UNCHANGED << save_queue, geo_req, app_alive, cfgVars >>
       ELSE \E flushed \in {flush_all_saves(save_queue, ConfigState, geometry,
                                             ui_picked_count, io)} :
               /\ DebouncerBecomes([active |-> FALSE, deadline |-> 0,
                                    pending |-> FALSE, last_flush |-> now])
               /\ save_queue' = flushed.queue
               /\ FlushEffect(flushed, survives)
               /\ save_obs' = FlushObserved("timeout", flushed)
               /\ geo_req' = GeoReqAfterFlush(geo_req, flushed)
    /\ UNCHANGED << now, geometry, is_moving, ui_picked_count, last_req, close_pc >>

\* Time passes, once a timer that is due has fired.
Tick ==
    /\ Running
    /\ ~(timer_active /\ now >= timer_deadline)
    /\ now + TimeStep <= MaxTime
    /\ now' = now + TimeStep
    /\ save_obs' = NoFlush
    /\ geo_req' = IF geo_req.age < 0 THEN geo_req
                  ELSE [geo_req EXCEPT
                           !.age = Min(geo_req.age + TimeStep, CONFIG_SAVE_DELAY)]
    /\ last_req' = IF last_req.age < 0 THEN last_req
                   ELSE [last_req EXCEPT
                            !.age = Min(last_req.age + TimeStep, CONFIG_SAVE_DELAY)]
    /\ UNCHANGED << save_queue, timer_active, timer_deadline, is_pending,
                    last_flush_time, geometry, is_moving, ui_picked_count, app_alive,
                    close_pc, cfgVars >>

\* closeEvent, its first statements: the recite timer and the debounce timer are
\* stopped (self._debounce_timer.stop()).
CloseStop ==
    /\ Visible
    /\ DebouncerBecomes(debouncer_stop(Debouncer))
    /\ close_pc' = "stopped"
    /\ save_obs' = NoFlushBy("stop")
    /\ UNCHANGED << save_queue, now, geometry, is_moving, ui_picked_count, app_alive,
                    geo_req, last_req, cfgVars >>

\* closeEvent, next: a non-empty queue is flushed at once (if self._save_queue:
\* self._flush_all_saves()).  An exception ends the handler with the event still
\* accepted, so the window closes all the same.
CloseFlush(io, survives) ==
    /\ app_alive /\ close_pc = "stopped"
    /\ Revision(config_cache) < MaxRevision
    /\ \E flushed \in {flush_all_saves(save_queue, ConfigState, geometry,
                                        ui_picked_count, io)} :
           /\ flushed.outcome = "empty" => (io = "ok" /\ survives)
           /\ save_queue' = flushed.queue
           /\ FlushEffect(flushed, survives)
           /\ save_obs' = IF flushed.outcome = "empty" THEN NoFlushBy("close")
                          ELSE FlushObserved("close", flushed)
           /\ geo_req' = GeoReqAfterFlush(geo_req, flushed)
           /\ close_pc' = IF flushed.outcome = "raised" THEN "hidden" ELSE "flushed"
    /\ UNCHANGED << timer_active, timer_deadline, is_pending, last_flush_time, now,
                    geometry, is_moving, ui_picked_count, last_req >>

\* _capture_final_state and the save of the floating mode that follow in
\* closeEvent: load_cached(), an update of keys that are not modelled here (to
\* the values they have), and save_atomic of the result.
close_saves(cs, io) == save_atomic(cs, load_cached(cs, "ok").value, io)

\* closeEvent, the rest: the final state is saved and the window hides behind the
\* floating window (show_floating is on): the program goes on and its timers run.
CloseFinal(io, survives) ==
    /\ app_alive /\ close_pc = "flushed"
    /\ Revision(config_cache) < MaxRevision
    /\ \E saved \in {close_saves(ConfigState, io)} :
           /\ saved.outcome = "noop" => (io = "ok" /\ survives)
           /\ ConfigStateBecomes(saved.cs)
           /\ last_written' = WrittenAfter(saved.outcome, saved.cs)
           /\ app_alive' = (saved.outcome # "raised" \/ survives)
           /\ close_pc' = "hidden"
    /\ save_obs' = NoFlushBy("final")
    /\ UNCHANGED << save_queue, timer_active, timer_deadline, is_pending,
                    last_flush_time, now, geometry, is_moving, ui_picked_count,
                    geo_req, last_req, cfg_obs >>

\* The save layer of a specification that does not use it.
SaveIdle ==
    /\ save_queue = {}
    /\ timer_active = FALSE
    /\ timer_deadline = 0
    /\ is_pending = FALSE
    /\ last_flush_time = 0
    /\ now = 0
    /\ geometry = 0
    /\ is_moving = FALSE
    /\ ui_picked_count = 0
    /\ app_alive = FALSE
    /\ save_obs = NoFlush
    /\ geo_req = NoGeometryRequest
    /\ last_req = NoRequest
    /\ close_pc = "idle"

----------------------------------------------------------------------------
\* Object identity in ConfigManager: which dict and list objects the class
\* attributes and the callers hold.  heap[r] is the object with reference r; a
\* dict object holds its scalar values and the reference of its
\* saved_available_names list, a list object its items.  A mapping in a file or
\* a text is a value without references.

KEY_SAVED_AVAILABLE_NAMES == "saved_available_names"

ObjKeys == {KEY_INTERNAL_REVISION, KEY_PICKED_COUNT, KEY_SAVED_AVAILABLE_NAMES}

\* DEFAULT_CONFIG and the [] it holds under saved_available_names are the first
\* two objects, made when the class body runs.
DefaultRef == 1
DefaultNamesRef == 2
NoRef == 0

ListObject(items) == [kind |-> "list", items |-> items]
DictObject(revision, picked_count, names_ref) ==
    [kind |-> "dict", revision |-> revision, picked_count |-> picked_count,
     names |-> names_ref]

ClassBodyHeap == << DictObject(0, 0, DefaultNamesRef), ListObject(<< >>) >>

\* What a mapping holds, nested list included.
DeepValue(h, d) ==
    [revision |-> h[d].revision, picked_count |-> h[d].picked_count,
     names |-> h[h[d].names].items]

\* json.dumps(mapping, sort_keys=True) of a complete mapping.
DumpsObject(h, d) ==
    << << KEY_INTERNAL_REVISION, h[d].revision >>,
       << KEY_PICKED_COUNT, h[d].picked_count >>,
       << KEY_SAVED_AVAILABLE_NAMES, h[h[d].names].items >> >>

\* A file holding a JSON object with the keys `present`.
ObjectFile(present, value) == [kind |-> "object", present |-> present, value |-> value]
\* What remains readable of a file that does not hold a JSON object: absent, cut
\* off in the middle (undecodable), or holding a JSON array.
BrokenFile(kind, value) == [kind |-> kind, present |-> {}, value |-> value]

\* A copy that shares the nested list with the original
deepcopy_shallow(h, d) ==
    [heap |-> Append(h, h[d]), ref |-> Len(h) + 1]

\* copy.deepcopy(mapping): a new dict holding a new list with the same items.
deepcopy(h, d) ==
    LET h1 == Append(h, ListObject(h[h[d].names].items))
    IN [heap |-> Append(h1, [h[d] EXCEPT !.names = Len(h1)]), ref |-> Len(h1) + 1]

\* DEFAULT_CONFIG.copy(): a new dict holding the same values, so the same list.
dict_copy(h, d) ==
    [heap |-> Append(h, h[d]), ref |-> Len(h) + 1]

\* {**DEFAULT_CONFIG, **json.loads(text)}: a new dict; a key of the file brings
\* the file's value (a list the decoder made), any other key the object
\* DEFAULT_CONFIG holds.
merge_defaults(h, file) ==
    LET from_file(k) == k \in file.present
        h1 == IF from_file(KEY_SAVED_AVAILABLE_NAMES)
              THEN Append(h, ListObject(file.value.names)) ELSE h
        names_ref == IF from_file(KEY_SAVED_AVAILABLE_NAMES)
                     THEN Len(h1) ELSE h[DefaultRef].names
        merged == DictObject(
                     IF from_file(KEY_INTERNAL_REVISION) THEN file.value.revision
                     ELSE h[DefaultRef].revision,
                     IF from_file(KEY_PICKED_COUNT) THEN file.value.picked_count
                     ELSE h[DefaultRef].picked_count,
                     names_ref)
    IN [heap |-> Append(h1, merged), ref |-> Len(h1) + 1]

\* The manager with its objects: the heap, _config_cache (a reference or NoRef),
\* _last_save_hash and the config file.
ObjState == [heap |-> heap, cache |-> obj_cache, hash |-> obj_hash, file |-> obj_file]

\* ConfigManager.save_atomic(config) on objects: the copy made at the start is
\* bumped, written and becomes the cache; the caller's mapping is only read.
save_atomic_obj(os, config, io) ==
    LET copied == deepcopy(os.heap, config)
        config_copy == copied.ref
        current_hash == Sha256(DumpsObject(copied.heap, config_copy))
        bumped == [copied.heap EXCEPT ![config_copy].revision = @ + 1]
        config_str == DumpsObject(bumped, config_copy)
    IN IF current_hash = os.hash
       THEN [os |-> os, outcome |-> "noop"]
       ELSE IF io # "ok"
       THEN [os |-> os, outcome |-> "raised"]
       ELSE [os |-> [heap |-> bumped, cache |-> config_copy,
                     hash |-> Sha256(config_str),
                     file |-> ObjectFile(ObjKeys, DeepValue(bumped, config_copy))],
             outcome |-> "written"]

\* ConfigManager._load_internal() on objects: the reference returned.  A file that
\* cannot be read or decoded, one that holds no JSON object ({**..., **config}
\* raises TypeError) and a failing save end in the except branch.
load_internal_obj(os, io) ==
    IF os.file.kind # "object"
    THEN LET fallback == dict_copy(os.heap, DefaultRef)
         IN [os |-> [os EXCEPT !.heap = fallback.heap], ref |-> fallback.ref,
             outcome |-> "default"]
    ELSE LET merged == merge_defaults(os.heap, os.file)
             saved == save_atomic_obj([os EXCEPT !.heap = merged.heap], merged.ref, io)
         IN IF saved.outcome = "raised"
            THEN LET fallback == dict_copy(saved.os.heap, DefaultRef)
                 IN [os |-> [saved.os EXCEPT !.heap = fallback.heap],
                     ref |-> fallback.ref, outcome |-> "default"]
            ELSE [os |-> saved.os, ref |-> merged.ref, outcome |-> "merged"]

\* load_cached that hands out the cached mapping itself
load_cached_obj_no_copy(os, io) ==
    LET loaded == IF os.cache = NoRef THEN load_internal_obj(os, io)
                  ELSE [os |-> os, ref |-> os.cache, outcome |-> "cached"]
    IN [os |-> [loaded.os EXCEPT !.cache = loaded.ref], ref |-> loaded.ref,
        outcome |-> loaded.outcome]

\* ConfigManager.load_cached() on objects: the reference of the copy returned.
load_cached_obj(os, io) ==
    LET loaded == IF os.cache = NoRef THEN load_internal_obj(os, io)
                  ELSE [os |-> os, ref |-> os.cache, outcome |-> "cached"]
        returned == deepcopy(loaded.os.heap, loaded.ref)
    IN [os |-> [loaded.os EXCEPT !.cache = loaded.ref, !.heap = returned.heap],
        ref |-> returned.ref, outcome |-> loaded.outcome]

\* ConfigManager.initialize() on objects.
initialize_obj(os) ==
    IF os.file.kind = "missing" THEN save_atomic_obj(os, DefaultRef, "ok").os ELSE os

\* The callers that hold a mapping at the same time, and a caller holding none.
Callers == {"flush", "dialog"}
NoHeld == [ref |-> NoRef, origin |-> "none"]

\* The dict objects referenced from outside the heap, DEFAULT_CONFIG first, and
\* after each its list, every object once.
RECURSIVE LiveOrder(_, _, _)
LiveOrder(h, roots, acc) ==
    IF roots = << >> THEN acc
    ELSE LET d == Head(roots)
             with_dict == IF d \in Range(acc) THEN acc ELSE Append(acc, d)
             with_list == IF h[d].names \in Range(with_dict) THEN with_dict
                          ELSE Append(with_dict, h[d].names)
         IN LiveOrder(h, Tail(roots), IF d = NoRef THEN acc ELSE with_list)

\* Objects nothing refers to are freed; the live ones are kept, numbered in the
\* order above (a reference is an identity, not an address).
Collect(os, holders) ==
    LET order == LiveOrder(os.heap,
                           << DefaultRef, os.cache, holders["flush"].ref,
                              holders["dialog"].ref >>, << >>)
        moved(r) == IF r = NoRef THEN NoRef
                    ELSE CHOOSE k \in 1 .. Len(order) : order[k] = r
        kept(k) == LET obj == os.heap[order[k]]
                   IN IF obj.kind = "dict" THEN [obj EXCEPT !.names = moved(@)] ELSE obj
    IN [os |-> [os EXCEPT !.heap = [k \in 1 .. Len(order) |-> kept(k)],
                          !.cache = moved(os.cache)],
        held |-> [c \in Callers |-> [holders[c] EXCEPT !.ref = moved(@)]]]

ObjectsBecome(collected) ==
    /\ heap' = collected.os.heap
    /\ obj_cache' = collected.os.cache
    /\ obj_hash' = collected.os.hash
    /\ obj_file' = collected.os.file
    /\ held' = collected.held

CacheValue == IF obj_cache = NoRef THEN None ELSE DeepValue(heap, obj_cache)
HeldValue(c) == IF held[c].ref = NoRef THEN None ELSE DeepValue(heap, held[c].ref)

\* The call a step made on the objects.
ObjCall(op, caller, outcome, value) ==
    [op |-> op, caller |-> caller, outcome |-> outcome, value |-> value]

\* A caller keeps what ConfigManager.load_cached() returned: config = load_cached().
ObjLoadCached(c, io) ==
    \E got \in {load_cached_obj(ObjState, io)} :
        /\ held[c].ref = NoRef
        /\ ObjectsBecome(Collect(got.os, [held EXCEPT ![c] = [ref |-> got.ref,
                                                              origin |-> got.outcome]]))
        /\ obj_last' = ObjCall("load", c, got.outcome, DeepValue(got.os.heap, got.ref))

\* A caller assigns a scalar of its mapping: config[KEY_PICKED_COUNT] = value.
ObjSetItem(c, value) ==
    /\ held[c].ref # NoRef
    /\ heap[held[c].ref].picked_count # value
    /\ heap' = [heap EXCEPT ![held[c].ref].picked_count = value]
    /\ obj_last' = ObjCall("setitem", c, "done", None)
    /\ UNCHANGED << obj_cache, obj_hash, obj_file, held >>

\* A caller changes the nested list of its mapping in place:
\* config[KEY_SAVED_AVAILABLE_NAMES].append(name), for a name not yet in it.
ObjAppendName(c, name) ==
    /\ held[c].ref # NoRef
    /\ name \notin Range(heap[heap[held[c].ref].names].items)
    /\ heap' = [heap EXCEPT ![heap[held[c].ref].names].items = Append(@, name)]
    /\ obj_last' = ObjCall("append", c, "done", None)
    /\ UNCHANGED << obj_cache, obj_hash, obj_file, held >>

\* A caller saves its mapping: ConfigManager.save_atomic(config).
ObjSaveAtomic(c, io) ==
    /\ held[c].ref # NoRef
    /\ heap[held[c].ref].revision < MaxRevision
    /\ \E saved \in {save_atomic_obj(ObjState, held[c].ref, io)} :
           /\ ObjectsBecome(Collect(saved.os, held))
           /\ obj_last' = ObjCall("save", c, saved.outcome, None)

\* A caller returns: its mapping is no longer referenced.
ObjRelease(c) ==
    /\ held[c].ref # NoRef
    /\ ObjectsBecome(Collect(ObjState, [held EXCEPT ![c] = NoHeld]))
    /\ obj_last' = ObjCall("release", c, "done", None)

\* The config file the process finds; the broken ones still show a count.
ObjStartFiles ==
    {BrokenFile("missing", None),
     BrokenFile("garbage", [revision |-> 1, picked_count |-> 1, names |-> << << "A" >> >>]),
     BrokenFile("array", [revision |-> 0, picked_count |-> 1, names |-> << >>]),
     ObjectFile({KEY_PICKED_COUNT}, [revision |-> 0, picked_count |-> 1, names |-> << >>]),
     ObjectFile(ObjKeys, [revision |-> 1, picked_count |-> 1,
                          names |-> << << "B" >> >>])}

NoObjCall == ObjCall("start", "none", "done", None)

\* The objects after PickName.__init__ has called ConfigManager.initialize().
ObjInit ==
    \E f \in ObjStartFiles :
        LET os == Collect(initialize_obj([heap |-> ClassBodyHeap, cache |-> NoRef,
                                          hash |-> None, file |-> f]),
                          [c \in Callers |-> NoHeld]).os
        IN /\ heap = os.heap
           /\ obj_cache = os.cache
           /\ obj_hash = os.hash
           /\ obj_file = os.file
           /\ held = [c \in Callers |-> NoHeld]
           /\ obj_last = NoObjCall

\* The objects of a specification that does not use them.
ObjIdle ==
    /\ heap = ClassBodyHeap
    /\ obj_cache = NoRef
    /\ obj_hash = None
    /\ obj_file = BrokenFile("missing", None)
    /\ held = [c \in Callers |-> NoHeld]
    /\ obj_last = NoObjCall

----------------------------------------------------------------------------
\* The pick controls of the main window: the pick and reset buttons, the animation
\* timer and the speech thread (ClassNamePicker主程序.py).  The pool is reduced to
\* the number of students it can still give out: the gender filter is UNKNOWN and
\* no_duplicate is 0.  A modal message box is part of the handler that opens it.

\* The roster size of the pool behind the window.
UiPoolSize == 4

\* How many finished signals can wait in the event queue of the main thread.
MaxPending == 2

\* _pick_name animates when more than this many students stay available.
ANIMATION_MIN_AVAILABLE == 2

\* A SpeechThread object: successive objects differ in id.
NoThread == [state |-> "none", emits |-> 0, id |-> 0]

\* QThread.isRunning(): run() has been entered and has not returned.
isRunning(thread) == thread.state \in {"running", "ending"}

\* The window's fields the pick flow reads and writes.
UiState ==
    [pick |-> pick_button, reset |-> reset_button, again |-> pick_again,
     avail |-> ui_available, anim |-> animating, dialog |-> confirm_dialog,
     thread |-> speech_thread]

UiBecomes(ui) ==
    /\ pick_button' = ui.pick
    /\ reset_button' = ui.reset
    /\ pick_again' = ui.again
    /\ ui_available' = ui.avail
    /\ animating' = ui.anim
    /\ confirm_dialog' = ui.dialog
    /\ speech_thread' = ui.thread

\* SpeechThread.run: the text is spoken or the engine raises; the finally clause
\* emits finished in both cases.
speech_run_emit_on_success(thread, outcome) ==
    [thread EXCEPT !.state = "ending",
                   !.emits = @ + (IF outcome = "ok" THEN 1 ELSE 0)]

speech_run(thread, outcome) ==
    [thread EXCEPT !.state = "ending", !.emits = @ + 1]

\* _speak_name_async: nothing while a thread is running, else a new thread is
\* started and the pick button disabled.
NewThread(old) == [state |-> "running", emits |-> 0, id |-> 1 - old.id]

speak_name_async_always(ui) ==
    [ui EXCEPT !.thread = NewThread(@), !.pick = FALSE]

speak_name_async(ui) ==
    IF ui.thread.state # "none" /\ isRunning(ui.thread)
    THEN ui
    ELSE [ui EXCEPT !.thread = NewThread(@), !.pick = FALSE]

\* _display_result (is_speech_enabled is True and never assigned again; the label,
\* picked_count and the statistics are not modelled).
display_result(ui) ==
    LET spoken == speak_name_async(ui)
    IN [spoken EXCEPT !.reset = IF spoken.again THEN @ ELSE TRUE]

\* _start_animation: with candidates left the timer is started.
start_animation(ui) ==
    IF ui.avail = 0 THEN display_result(ui) ELSE [ui EXCEPT !.anim = TRUE]

\* _show_completion_message.
show_completion_message(ui) == [ui EXCEPT !.reset = TRUE, !.pick = FALSE]

\* _pick_name: both buttons are disabled, the pool picks (IndexError when nothing
\* is available), then the animation is started or the result displayed.
pick_name(ui) ==
    LET off == [ui EXCEPT !.pick = FALSE, !.reset = FALSE]
    IN IF off.avail = 0
       THEN [show_completion_message(off) EXCEPT !.pick = TRUE]
       ELSE LET picked == [off EXCEPT !.avail = IF off.again THEN @ ELSE @ - 1]
            IN IF picked.avail > ANIMATION_MIN_AVAILABLE
               THEN start_animation(picked)
               ELSE display_result(picked)

\* _update_animation: a frame while the animation time has not elapsed, then the
\* timer is stopped and the result displayed.
update_animation(ui, elapsed) ==
    IF ~elapsed THEN ui ELSE display_result([ui EXCEPT !.anim = FALSE])

\* PickName.reset: the timers are stopped, the roster is loaded again into a new
\* pool and the pick button is enabled.
reset(ui) == [ui EXCEPT !.anim = FALSE, !.avail = UiPoolSize, !.pick = TRUE]

\* _rebuild_student_pool: the animation timer is stopped, the available names are
\* carried over.
rebuild_student_pool(ui) == [ui EXCEPT !.anim = FALSE]

\* _on_toggle_repeat, run when the checkbox has changed.
on_toggle_repeat(ui) ==
    rebuild_student_pool(reset([ui EXCEPT !.again = ~@]))

\* _on_config_applied.
on_config_applied(ui, no_dup_changed, open_text) ==
    LET rebuilt == IF no_dup_changed THEN rebuild_student_pool(ui) ELSE ui
    IN IF open_text THEN reset(rebuilt) ELSE rebuilt

\* _reset_with_confirm opens the dialog without blocking; _on_reset_dialog_finished
\* resets on Yes.
reset_with_confirm(ui) == [ui EXCEPT !.dialog = TRUE]

on_reset_dialog_finished(ui, yes) ==
    [(IF yes THEN reset(ui) ELSE ui) EXCEPT !.dialog = FALSE]

\* _on_speech_finished.
on_speech_finished(ui) == [ui EXCEPT !.pick = TRUE]

\* A handler of the main thread or a step of the worker: whether it called
\* _speak_name_async and whether a thread was running then.
UiCall(call, speak) ==
    [call |-> call, speak |-> speak, busy |-> speak /\ isRunning(speech_thread)]

NoUiCall == [call |-> "none", speak |-> FALSE, busy |-> FALSE]

\* The stage of the pick once its result is displayed: its completion path goes
\* on to the finished signal when a thread was started for it.
PcAfterDisplay(before) ==
    IF ~isRunning(before.thread) THEN "speaking" ELSE "idle"

\* Whether _pick_name displays the result itself: the pool gave a student and no
\* more than ANIMATION_MIN_AVAILABLE stay available.
PickDisplays(ui) ==
    /\ ui.avail # 0
    /\ (IF ui.again THEN ui.avail ELSE ui.avail - 1) <= ANIMATION_MIN_AVAILABLE

\* A pick whose animation a reset or a rebuild has stopped is given up.
PcAfterStop(after) ==
    IF pick_pc = "animating" /\ ~after.anim THEN "idle" ELSE pick_pc

\* A click on the pick button.
PickName ==
    /\ pick_button /\ ~confirm_dialog
    /\ \E after \in {pick_name(UiState)} :
          /\ UiBecomes(after)
          /\ pick_pc' = IF ui_available = 0 THEN pick_pc
                        ELSE IF PickDisplays(UiState) THEN PcAfterDisplay(UiState)
                        ELSE "animating"
          /\ ui_obs' = UiCall(IF ui_available = 0 THEN "pick_empty" ELSE "pick",
                              PickDisplays(UiState))
    /\ UNCHANGED finished_events

\* A timeout of the animation timer.
UpdateAnimation(elapsed) ==
    /\ animating
    /\ \E after \in {update_animation(UiState, elapsed)} :
          /\ UiBecomes(after)
          /\ pick_pc' = IF elapsed THEN PcAfterDisplay(UiState) ELSE pick_pc
          /\ ui_obs' = UiCall(IF elapsed THEN "display" ELSE "frame", elapsed)
    /\ UNCHANGED finished_events

\* A click on the reset button.
ResetWithConfirm ==
    /\ reset_button /\ ~confirm_dialog
    /\ UiBecomes(reset_with_confirm(UiState))
    /\ ui_obs' = UiCall("reset_click", FALSE)
    /\ UNCHANGED << finished_events, pick_pc >>

\* The confirmation dialog is answered.
ResetDialogFinished(yes) ==
    /\ confirm_dialog
    /\ UiBecomes(on_reset_dialog_finished(UiState, yes))
    /\ pick_pc' = PcAfterStop(on_reset_dialog_finished(UiState, yes))
    /\ ui_obs' = UiCall(IF yes THEN "reset" ELSE "reset_cancel", FALSE)
    /\ UNCHANGED finished_events

\* The repeat checkbox is toggled.
ToggleRepeat ==
    /\ ~confirm_dialog
    /\ UiBecomes(on_toggle_repeat(UiState))
    /\ pick_pc' = PcAfterStop(on_toggle_repeat(UiState))
    /\ ui_obs' = UiCall("toggle", FALSE)
    /\ UNCHANGED finished_events

\* The configuration window applies a configuration.
ConfigApplied(no_dup_changed, open_text) ==
    /\ UiBecomes(on_config_applied(UiState, no_dup_changed, open_text))
    /\ pick_pc' = PcAfterStop(on_config_applied(UiState, no_dup_changed, open_text))
    /\ ui_obs' = UiCall("config", FALSE)
    /\ UNCHANGED finished_events

\* The worker thread runs SpeechThread.run to its finally clause.
SpeechRun(outcome) ==
    /\ speech_thread.state = "running"
    /\ finished_events < MaxPending
    /\ speech_thread' = speech_run(speech_thread, outcome)
    /\ finished_events' = finished_events + (speech_thread'.emits - speech_thread.emits)
    /\ ui_obs' = UiCall(IF outcome = "ok" THEN "run" ELSE "run_raised", FALSE)
    /\ UNCHANGED << pick_button, reset_button, pick_again, ui_available, animating,
                    confirm_dialog, pick_pc >>

\* run() returns and the thread ends.
SpeechExit ==
    /\ speech_thread.state = "ending"
    /\ speech_thread' = [speech_thread EXCEPT !.state = "finished"]
    /\ ui_obs' = UiCall("exit", FALSE)
    /\ UNCHANGED << pick_button, reset_button, pick_again, ui_available, animating,
                    confirm_dialog, finished_events, pick_pc >>

\* The main thread delivers a queued finished signal to _on_speech_finished.
SpeechFinished ==
    /\ finished_events > 0
    /\ UiBecomes(on_speech_finished(UiState))
    /\ finished_events' = finished_events - 1
    /\ pick_pc' = IF pick_pc = "speaking" THEN "idle" ELSE pick_pc
    /\ ui_obs' = UiCall("finished", FALSE)

\* The window after PickName.__init__: the pool is full or as restored from the
\* saved names, the repeat checkbox as saved; the form decides about the reset button.
UiInit ==
    /\ pick_button = TRUE
    /\ reset_button \in BOOLEAN
    /\ pick_again \in BOOLEAN
    /\ ui_available \in 1..UiPoolSize
    /\ animating = FALSE
    /\ confirm_dialog = FALSE
    /\ speech_thread = NoThread
    /\ finished_events = 0
    /\ pick_pc = "idle"
    /\ ui_obs = NoUiCall

UiIdle ==
    /\ pick_button = TRUE
    /\ reset_button = FALSE
    /\ pick_again = FALSE
    /\ ui_available = 0
    /\ animating = FALSE
    /\ confirm_dialog = FALSE
    /\ speech_thread = NoThread
    /\ finished_events = 0
    /\ pick_pc = "idle"
    /\ ui_obs = NoUiCall

----------------------------------------------------------------------------
\* FloatingWindowManager._sync_configuration and the handlers that call it
\* (FloatingWindowManagerPy.py, ConfigPage.py, ClassNamePicker主程序.py).  Of the
\* floating-window settings only floating_x_size is modelled; DEFAULT_CONFIG of
\* the model does not hold it, and config.get(KEY_FLOATING_X_SIZE, 100) reads the
\* same value from a mapping without the key.

FLOATING_DEFAULT_SIZE == 100

\* The sizes the configuration page can be given.
FloatSizes == {FLOATING_DEFAULT_SIZE, FLOATING_DEFAULT_SIZE + 1}

\* current_cfg: the settings _sync_configuration extracts from a configuration.
FloatCfg(config) ==
    {<< "size_x", IF KEY_FLOATING_X_SIZE \in DOMAIN config
                  THEN config[KEY_FLOATING_X_SIZE] ELSE FLOATING_DEFAULT_SIZE >>}

\* The manager's fields as one value; a new manager has revision -1 and an empty
\* snapshot.
Manager == [revision |-> fw_revision, snapshot |-> fw_snapshot]

NewManager == [revision |-> -1, snapshot |-> {}]

\* A manager whose fast path does not look at force_create.
sync_configuration_unforced(fw, config, force_create) ==
    IF Revision(config) = fw.revision
    THEN fw
    ELSE [revision |-> Revision(config), snapshot |-> FloatCfg(config)]

\* _sync_configuration(config, force_create): nothing when not forced and the
\* revision is the one recorded, else revision and snapshot are taken from config.
sync_configuration(fw, config, force_create) ==
    IF ~force_create /\ Revision(config) = fw.revision
    THEN fw
    ELSE [revision |-> Revision(config), snapshot |-> FloatCfg(config)]

SyncCall(config, force_create, after) ==
    [call |-> "sync", config |-> config, force |-> force_create,
     skipped |-> after = Manager]

NoSync == [call |-> "none", config |-> DEFAULT_CONFIG, force |-> FALSE,
           skipped |-> FALSE]

OtherCall == [NoSync EXCEPT !.call = "other"]

Handed(config) == << Revision(config), FloatCfg(config) >>

\* FloatingWindowManager.initialize(), called once by PickName.__init__.
ManagerInitialize(io) ==
    /\ fw_obs.call = "none"
    /\ \E got \in {load_cached(ConfigState, io)} :
        \E after \in {sync_configuration(Manager, got.value, TRUE)} :
          /\ ConfigStateBecomes(got.cs)
          /\ fw_revision' = after.revision
          /\ fw_snapshot' = after.snapshot
          /\ fw_handed' = fw_handed \cup {Handed(got.value)}
          /\ fw_obs' = SyncCall(got.value, TRUE, after)
    /\ UNCHANGED << last_written, cfg_obs >>

\* The flush of _on_config_applied and of the debouncer, reduced to picked_count:
\* the state after it.
flush_state(cs, count, io) ==
    IF load_cached(cs, "ok").value[KEY_PICKED_COUNT] = count
    THEN cs
    ELSE save_atomic(cs, [load_cached(cs, "ok").value EXCEPT ![KEY_PICKED_COUNT] = count],
                     io).cs

\* ConfigWindow.save_config with a floating size entered, and, when the save does
\* not raise, PickName._on_config_applied with the mapping it emits: a forced sync,
\* then the flush of the window's state.
ConfigPageSave(size, count, io) ==
    /\ fw_obs.call # "none"
    /\ Revision(config_cache) + 2 <= MaxRevision
    /\ \E config \in {(KEY_FLOATING_X_SIZE :> size) @@ load_cached(ConfigState, "ok").value} :
        \E saved \in {save_atomic(ConfigState, config, io)} :
          IF saved.outcome = "raised"
          THEN /\ ConfigStateBecomes(saved.cs)
               /\ fw_obs' = OtherCall
               /\ UNCHANGED << fw_revision, fw_snapshot, fw_handed >>
          ELSE \E after \in {sync_configuration(Manager, config, TRUE)} :
                 /\ ConfigStateBecomes(flush_state(saved.cs, count, "ok"))
                 /\ fw_revision' = after.revision
                 /\ fw_snapshot' = after.snapshot
                 /\ fw_handed' = fw_handed \cup {Handed(config)}
                 /\ fw_obs' = SyncCall(config, TRUE, after)
    /\ UNCHANGED << last_written, cfg_obs >>

\* PickName._flush_all_saves run by the debouncer.
FlushState(count, io) ==
    /\ fw_obs.call # "none"
    /\ Revision(config_cache) < MaxRevision
    /\ ConfigStateBecomes(flush_state(ConfigState, count, io))
    /\ fw_obs' = OtherCall
    /\ UNCHANGED << fw_revision, fw_snapshot, fw_handed, last_written, cfg_obs >>

\* PickName.closeEvent with the floating window shown: the loaded configuration is
\* saved (floating_mode is not modelled) and trayify_and_show_fw hands a freshly
\* loaded one to the manager, not forced.
Trayify(io) ==
    /\ fw_obs.call # "none"
    /\ Revision(config_cache) < MaxRevision
    /\ \E saved \in {close_saves(ConfigState, io)} :
          IF saved.outcome = "raised"
          THEN /\ ConfigStateBecomes(saved.cs)
               /\ fw_obs' = OtherCall
               /\ UNCHANGED << fw_revision, fw_snapshot, fw_handed >>
          ELSE \E config \in {load_cached(saved.cs, "ok").value} :
                \E after \in {sync_configuration(Manager, config, FALSE)} :
                 /\ ConfigStateBecomes(saved.cs)
                 /\ fw_revision' = after.revision
                 /\ fw_snapshot' = after.snapshot
                 /\ fw_handed' = fw_handed \cup {Handed(config)}
                 /\ fw_obs' = SyncCall(config, FALSE, after)
    /\ UNCHANGED << last_written, cfg_obs >>

\* The manager PickName.__init__ constructs.
FwInit ==
    /\ fw_revision = NewManager.revision
    /\ fw_snapshot = NewManager.snapshot
    /\ fw_handed = {}
    /\ fw_obs = NoSync

FwIdle == FwInit

\* The window's no_duplicate where it plays no part.
WinIdle ==
    /\ self_no_duplicate = 0
    /\ no_duplicate_cache = 0
    /\ pick_again_checked = FALSE
    /\ config_no_duplicate = 0

----------------------------------------------------------------------------
\* The pool specification: a pool built by the constructor, then any sequence of
\* pick, reset, restore_available_names and no_duplicate assignments.

Letters == << "A", "B", "C", "D", "E", "F", "G", "H" >>
Name(k) == << Letters[k] >>
Plain(n) == [k \in 1 .. n |-> Name(k)]

\* Roster files: n plain names after a comment line; a shorter one with the first
\* name repeated as the last line; one with a padded copy of the first name first.
RosterFiles ==
    {<< << "#", "x" >> >> \o Plain(n) : n \in 1 .. PoolSize}
        \cup {Plain(PoolSize - 2) \o << << >>, Name(1) >>}
        \cup {<< << " ", "A" >> >> \o Plain(PoolSize - 2)}

FemaleFiles ==
    {<< >>, << Name(3), Name(4) >>, << Name(1), << "Z" >> >>}

\* The names restore_available_names may be given: roster identities and a stale one.
RestoreNames == {Name(1), Name(PoolSize), << " ", "A" >>, << "Z" >>}

PoolIs(pool) ==
    /\ students = pool.students
    /\ name_to_idx = pool.name_to_idx
    /\ female_bitmap = pool.female_bitmap
    /\ bit_available = pool.bit_available
    /\ bit_picked = pool.bit_picked
    /\ no_duplicate = pool.no_duplicate
    /\ recent_queue = pool.recent_queue
    /\ recent_bitmap = pool.recent_bitmap

NoCall == [op |-> "new", gender |-> UNKNOWN, remove |-> FALSE, ok |-> TRUE,
           idx |-> -1, names |-> {}, target |-> -1,
                queue_before |-> << >>]

PoolInit ==
    \E roster_lines \in RosterFiles, female_lines \in FemaleFiles,
       nd \in {-1, MaxNoDup} :
        LET all_students == parse_student_file(roster_lines, UNKNOWN)
            female_students == parse_student_file(female_lines, FEMALE)
        IN /\ PoolIs(NewPool(all_students, female_students, nd))
           /\ last = NoCall
           /\ taken = [i \in Indices(Len(all_students)) |-> 0]
           /\ window = << >>
           /\ ConfigIdle
           /\ LoadIdle
           /\ SaveIdle
           /\ ObjIdle
           /\ UiIdle
           /\ FwIdle
           /\ WinIdle

PoolNext ==
    /\ \/ \E gender \in Gender, remove \in BOOLEAN : PickOk(gender, remove)
       \/ \E gender \in Gender, remove \in BOOLEAN : PickFail(gender, remove)
       \/ \E gender \in Gender : Reset(gender)
       \/ \E names \in SUBSET RestoreNames : RestoreAvailableNames(names)
       \/ \E value \in (-1) .. MaxNoDup : SetNoDuplicate(value)
    /\ UNCHANGED << cfgVars, loadVars, saveVars, objVars, uiVars, fwVars, winVars >>

PoolSpec == PoolInit /\ [][PoolNext]_vars

----------------------------------------------------------------------------
\* Properties of the pool.

Identities == {students[i].original_name : i \in DOMAIN students}

\* C1: picking with remove=True never returns a participant a second time unless a
\* reset re-set its available bit in between: no participant's count of returns
\* since its last reset exceeds one.
C1_NoRepeatWhenRemoving == \A i \in DOMAIN taken : taken[i] <= 1

\* Two participants were taken with remove=True and the pool is now exhausted.
C1_Witness ==
    /\ last.op = "pick" /\ last.ok /\ last.remove
    /\ Cardinality({i \in DOMAIN taken : taken[i] = 1}) >= 2
    /\ Count(bit_available) = 0

\* C2: with no_duplicate = k > 0 a participant returned by one pick is not returned
\* by any of the next k successful picks (no reset or resize in between): in the
\* sequence of picks since the last reset or resize, two positions at distance <= k
\* hold different participants.
C2_NoRepeatWithinWindow ==
    \A p \in DOMAIN window, q \in DOMAIN window :
        (p < q /\ q - p <= no_duplicate) => window[p] # window[q]

\* With repeats allowed throughout, k + 1 picks in a row were made for k >= 2,
\* the last of them with a gender filter.
C2_Witness ==
    /\ last.op = "pick" /\ last.ok /\ ~last.remove /\ last.gender # UNKNOWN
    /\ no_duplicate >= 2
    /\ Len(window) = no_duplicate + 1
    /\ Count(bit_picked) = 0

\* C3: for every filter get_stats gives available <= total and picked <= total, and
\* the total of UNKNOWN is the sum of the totals of MALE and FEMALE.
C3_StatsBounded ==
    /\ \A g \in Gender :
          /\ get_stats(g)[2] <= get_stats(g)[1]
          /\ get_stats(g)[3] <= get_stats(g)[1]
    /\ get_stats(UNKNOWN)[1] = get_stats(MALE)[1] + get_stats(FEMALE)[1]

\* Both genders are present; a female and a male participant were picked and a
\* male one is still available.
C3_Witness ==
    /\ get_stats(FEMALE)[3] > 0
    /\ get_stats(MALE)[3] > 0
    /\ get_stats(MALE)[2] > 0

\* C4: right after restore_available_names(S), get_available_names() is S
\* intersected with the roster's identities, and every participant whose identity
\* is not in S is picked and not available.
C4_RestoreRoundTrip ==
    last.op = "restore" =>
        /\ get_available_names = last.names \cap Identities
        /\ \A i \in DOMAIN students :
               students[i].original_name \notin last.names =>
                   bit_picked[i] /\ ~bit_available[i]

\* The restored set holds a roster identity and a stale one, and leaves out a
\* roster identity that was available before.
C4_Witness ==
    /\ last.op = "restore"
    /\ << "Z" >> \in last.names
    /\ last.names \cap Identities # {}
    /\ ~(Identities \subseteq last.names)
    /\ Len(recent_queue) > 0

\* C9: the recent bitmap has a bit set exactly for the indices in the recent queue,
\* the queue holds no index twice, and popcount(bitmap) = len(queue) <= no_duplicate.
C9_RecentMirrorsQueue ==
    /\ \A i \in DOMAIN recent_bitmap : recent_bitmap[i] <=> i \in Range(recent_queue)
    /\ \A p \in DOMAIN recent_queue, q \in DOMAIN recent_queue :
           p # q => recent_queue[p] # recent_queue[q]
    /\ Count(recent_bitmap) = Len(recent_queue)
    /\ Len(recent_queue) <= no_duplicate

\* The queue is full and its oldest entry has been evicted at least once.
C9_Witness ==
    /\ no_duplicate >= 2
    /\ Len(recent_queue) = no_duplicate
    /\ Len(window) = no_duplicate + 1

----------------------------------------------------------------------------
\* The exhaustion scenario: a pool with no_duplicate = 0 on which only
\* pick(gender, remove=True) is called.

ExhaustInit ==
    \E female_lines \in FemaleFiles :
        LET all_students == parse_student_file(Plain(ExhaustSize), UNKNOWN)
            female_students == parse_student_file(female_lines, FEMALE)
        IN /\ PoolIs(NewPool(all_students, female_students, 0))
           /\ last = NoCall
           /\ taken = [i \in Indices(Len(all_students)) |-> 0]
           /\ window = << >>
           /\ ConfigIdle
           /\ LoadIdle
           /\ SaveIdle
           /\ ObjIdle
           /\ UiIdle
           /\ FwIdle
           /\ WinIdle

ExhaustNext ==
    /\ \/ \E gender \in Gender : PickOk(gender, TRUE)
       \/ \E gender \in Gender : PickFail(gender, TRUE)
    /\ UNCHANGED << cfgVars, loadVars, saveVars, objVars, uiVars, fwVars, winVars >>

ExhaustSpec == ExhaustInit /\ [][ExhaustNext]_vars

\* The participants a gender filter asks for, by the female list.
OfGender(gender) ==
    {i \in DOMAIN students :
        \/ gender = UNKNOWN
        \/ gender = FEMALE /\ female_bitmap[i]
        \/ gender = MALE /\ ~female_bitmap[i]}

\* C7: with no_duplicate = 0 and remove=True, a successful pick(g) returns a
\* participant of gender g that no earlier pick returned, and pick(g) raises
\* NoCandidates only when every participant of gender g has been returned once; so
\* picks of g return each participant of g exactly once, then fail, while the other
\* gender is still served.
C7_ExhaustByGender ==
    /\ \A i \in DOMAIN taken : taken[i] <= 1
    /\ (last.op = "pick" /\ last.ok) =>
           /\ last.idx \in OfGender(last.gender)
           /\ taken[last.idx] = 1
    /\ (last.op = "pick" /\ ~last.ok) =>
           \A i \in OfGender(last.gender) : taken[i] = 1

\* The third FEMALE pick failed after both female participants were returned, with
\* every male participant still available.
C7_Witness ==
    /\ last.op = "pick" /\ ~last.ok /\ last.gender = FEMALE
    /\ Cardinality(OfGender(FEMALE)) = 2
    /\ \A i \in OfGender(FEMALE) : taken[i] = 1
    /\ \A i \in OfGender(MALE) : bit_available[i]

\* After both female participants were returned a MALE pick succeeded.
C7_WitnessOther ==
    /\ last.op = "pick" /\ last.ok /\ last.gender = MALE
    /\ Cardinality(OfGender(FEMALE)) = 2
    /\ \A i \in OfGender(FEMALE) : taken[i] = 1

----------------------------------------------------------------------------
\* The configuration specification: the manager after start-up, then any sequence
\* of reads and of read-change-save calls, each save's file operations ending in
\* any of the three ways.

\* The pool of a specification that does not use it.
PoolIdle ==
    /\ PoolIs(NewPool(parse_student_file(Plain(1), UNKNOWN), << >>, 0))
    /\ last = NoCall
    /\ taken = [i \in Indices(1) |-> 0]
    /\ window = << >>

ConfigSpecInit == ConfigInit /\ PoolIdle /\ LoadIdle /\ SaveIdle /\ ObjIdle /\ UiIdle /\ FwIdle /\ WinIdle

\* How the save inside a first load can end; a load served from the cache touches
\* no file.
LoadIoOutcomes == IF config_cache = None THEN IoOutcomes ELSE {"ok"}

ConfigNext ==
    /\ \/ \E io \in LoadIoOutcomes : LoadCached(io)
       \/ \E key \in {KEY_PICKED_COUNT, KEY_WINDOW_GEOMETRY_QT}, value \in ConfigValues,
             io_load \in LoadIoOutcomes, io \in IoOutcomes :
              UpdateConfig(key, value, io_load, io)
       \/ \E key \in {KEY_PICKED_COUNT, KEY_WINDOW_GEOMETRY_QT}, value \in ConfigValues,
             point \in {"write_fails", "replace_fails"} :
              SaveCrashes(key, value, point)
    /\ UNCHANGED << poolVars, obsVars, loadVars, saveVars, objVars, uiVars, fwVars, winVars >>

ConfigSpec == ConfigSpecInit /\ [][ConfigNext]_vars

\* The content passed to the last save_atomic call is byte-identical to the content
\* this process last wrote to the config file.
SameAsLastSaved ==
    cfg_obs.pre_written # None /\ cfg_obs.arg = cfg_obs.pre_written

C5_WitnessWrite ==
    /\ cfg_obs.op = "save"
    /\ ~SameAsLastSaved
    /\ cfg_obs.outcome = "written"
    /\ cfg_obs.pre.file.kind = "json"

\* C10: every write that reaches the config file carries a revision exactly one
\* greater than the revision of the content the file held before, so the persisted
\* revision never repeats or decreases.
C10_RevisionBumpsPerWrite ==
    (cfg_obs.outcome = "written" /\ cfg_obs.pre.file.kind = "json") =>
        Revision(Loads(config_file.text)) = Revision(Loads(cfg_obs.pre.file.text)) + 1

\* The content save_atomic writes for a mapping: its revision raised by one.
BumpRevision(config) ==
    [k \in DOMAIN config \cup {KEY_INTERNAL_REVISION} |->
        IF k = KEY_INTERNAL_REVISION THEN Revision(config) + 1 ELSE config[k]]

\* C11: a save_atomic that fails with an I/O error leaves the cache, the digest and
\* the live file exactly as they were before the call; a save that writes is
\* reflected in all three: the file holds the new content, the cache is that
\* content and the digest is the digest of the file.
C11_FailedSaveLeavesCache ==
    cfg_obs.op = "save" =>
        /\ cfg_obs.outcome = "raised" =>
               /\ config_cache = cfg_obs.pre.cache
               /\ last_save_hash = cfg_obs.pre.hash
               /\ config_file = cfg_obs.pre.file
        /\ cfg_obs.outcome = "written" =>
               /\ config_cache = BumpRevision(cfg_obs.value)
               /\ config_file = JsonFile(Dumps(BumpRevision(cfg_obs.value)))
               /\ last_save_hash = Sha256(Dumps(BumpRevision(cfg_obs.value)))

\* os.replace failed in a save of changed content: the complete temporary file is
\* left behind, the cache still holds the earlier content.
C11_Witness ==
    /\ cfg_obs.op = "save"
    /\ cfg_obs.outcome = "raised"
    /\ tmp_file.kind = "json"
    /\ tmp_file.text # config_file.text
    /\ config_cache # None
    /\ cfg_obs.value # config_cache

\* C12: whatever happens in a save_atomic (it returns, it raises while writing the
\* temporary file or while renaming it, or the process is killed at one of these
\* points), the live config file afterwards holds either exactly what it held
\* before or the complete new content.
C12_LiveFileOldOrNew ==
    cfg_obs.op \in {"save", "crash"} =>
        \/ config_file = cfg_obs.pre.file
        \/ config_file = JsonFile(Dumps(BumpRevision(cfg_obs.value)))

\* The process was killed while the temporary file was being written: that file is
\* partial, the live file is the complete earlier one.
C12_Witness ==
    /\ cfg_obs.op = "crash"
    /\ tmp_file.kind = "garbage"
    /\ config_file.kind = "json"
    /\ config_file = cfg_obs.pre.file
    /\ config_cache = None

----------------------------------------------------------------------------
\* The loading specification: _load_student_data on the two name files, the user
\* answering each repair dialog in any way.

LoadRosterFiles ==
    {<< >>,
     << CommentLine, << >> >>,
     << CommentLine, Name(1), Name(2), Name(3) >>,
     << Name(1), << " ", "B" >> >>,
     << Name(1), Name(2), Name(1) >>,
     << << " ", "A" >>, Name(2) >>}

LoadFemaleFiles ==
    {<< >>,
     << << "Z" >> >>,
     << Name(1) >>,
     << Name(1), << "Z" >>, << "Y" >> >>,
     << << "A", " " >> >>,
     << CommentLine, Name(2) >>}

LoadInit ==
    /\ names_file \in LoadRosterFiles
    /\ g_names_file \in LoadFemaleFiles
    /\ retry_count = 0
    /\ load_pc = "loop"
    /\ load_obs = NoAttempt
    /\ PoolIdle
    /\ ConfigIdle
    /\ SaveIdle
    /\ ObjIdle
    /\ UiIdle
    /\ FwIdle
    /\ WinIdle

LoadNext ==
    /\ \/ \E fix_type \in {"add_to_all", "remove_from_girl"} : LoadRepair(fix_type)
       \/ LoadQuit
       \/ LoadBuild
       \/ LoadEmpty
       \/ LoadGiveUp
    /\ UNCHANGED << cfgVars, saveVars, objVars, uiVars, fwVars, winVars >>

LoadSpec == LoadInit /\ [][LoadNext]_vars

\* C8: a pass that finds female identities missing from the roster builds no pool
\* and reports exactly those identities; and a pool is only ever built from files
\* whose female identities are all in the roster, so none is dropped.
C8_SubsetViolationReported ==
    /\ load_obs.invalid # {} =>
           /\ load_obs.reported = load_obs.invalid
           /\ load_pc # "built"
    /\ load_pc = "built" =>
           /\ OriginalNames(FemaleStudents) \subseteq OriginalNames(AllStudents)
           /\ \A n \in OriginalNames(FemaleStudents) :
                  \E i \in DOMAIN students :
                      students[i].original_name = n /\ female_bitmap[i]

\* The female file held "Z" (and "Y"), which the roster does not; the dialog named
\* them and the user quit.
C8_Witness ==
    /\ load_pc = "exit"
    /\ << "Z" >> \in load_obs.invalid
    /\ Cardinality(load_obs.reported) = 2
    /\ AllStudents # << >>

\* After a repair the pool was built with a female participant.
C8_WitnessRepaired ==
    /\ load_pc = "built"
    /\ retry_count > 0
    /\ OriginalNames(FemaleStudents) # {}

----------------------------------------------------------------------------
\* The save specification: the window is resized, moved and dragged, the picked
\* count changes, time passes in steps of half the debounce delay and the timer
\* fires when due or later.

\* The program once PickName.__init__ has loaded the configuration and restored
\* the window: the cache is filled and the timer has never run.
SaveInit ==
    /\ \E f \in {MissingFile, JsonFile(Dumps([DEFAULT_CONFIG EXCEPT
                                  ![KEY_INTERNAL_REVISION] = 1,
                                  ![KEY_WINDOW_GEOMETRY_QT] = MaxGeometry]))} :
          LET cs == load_cached(initialize([file |-> f, tmp |-> MissingFile,
                                            cache |-> None, hash |-> None], "ok"),
                                "ok").cs
          IN /\ ConfigStateIs(cs)
             /\ last_written = IF cs.hash = None THEN None ELSE cs.file.text
             /\ geometry = IF cs.cache[KEY_WINDOW_GEOMETRY_QT] # 0
                           THEN cs.cache[KEY_WINDOW_GEOMETRY_QT] ELSE 1
             /\ ui_picked_count = cs.cache[KEY_PICKED_COUNT]
    /\ cfg_obs = NoConfigCall
    /\ save_queue = {}
    /\ timer_active = FALSE
    /\ timer_deadline = 0
    /\ is_pending = FALSE
    /\ last_flush_time = 0
    /\ now = 0
    /\ is_moving = FALSE
    /\ app_alive = TRUE
    /\ save_obs = NoFlush
    /\ geo_req = NoGeometryRequest
    /\ last_req = NoRequest
    /\ close_pc = "idle"
    /\ PoolIdle
    /\ LoadIdle
    /\ ObjIdle
    /\ UiIdle
    /\ FwIdle
    /\ WinIdle

SaveNext ==
    /\ \/ \E blob \in Geometries : ResizeEvent(blob)
       \/ \E blob \in Geometries : MoveEvent(blob)
       \/ MousePressEvent
       \/ \E blob \in Geometries : MouseMoveEvent(blob)
       \/ \E blob \in Geometries : MouseReleaseEvent(blob)
       \/ \E value \in ConfigValues : SaveApplicationState(value)
       \/ \E io \in IoOutcomes, survives \in BOOLEAN : Timeout(io, survives)
       \/ Tick
       \/ CloseStop
       \/ \E io \in IoOutcomes, survives \in BOOLEAN : CloseFlush(io, survives)
       \/ \E io \in IoOutcomes, survives \in BOOLEAN : CloseFinal(io, survives)
    /\ UNCHANGED << poolVars, obsVars, loadVars, objVars, uiVars, fwVars, winVars >>

SaveSpec == SaveInit /\ [][SaveNext]_vars

\* The flush of the last step wrote a new window geometry.
GeometryWritten ==
    /\ save_obs.op = "flush"
    /\ save_obs.outcome = "written"
    /\ KEY_WINDOW_GEOMETRY_QT \in save_obs.updates

C13_FailedFlushRequeued ==
    (save_obs.op = "flush" /\ save_obs.outcome = "raised") =>
        /\ save_obs.reasons \subseteq save_queue
        /\ app_alive

\* C14 as stated: in a pool the loader has built, no two roster positions hold the
\* same identity, and the identity-to-index map sends each position's identity
\* back to that position.
C14_IdentitiesUnique ==
    load_pc = "built" =>
        /\ \A i, j \in DOMAIN students :
               students[i].original_name = students[j].original_name => i = j
        /\ \A i \in DOMAIN students : name_to_idx[students[i].original_name] = i

----------------------------------------------------------------------------
\* Properties of single pool calls, stated on the step that makes the call: last'
\* names the call and its result, the unprimed variables are the pool before it.

\* The candidate positions of a filter: available, of the filter's gender and, when
\* the no-repeat window is on, not in it.
IsCandidate(gender, i) ==
    /\ bit_available[i]
    /\ gender = FEMALE => female_bitmap[i]
    /\ gender = MALE => ~female_bitmap[i]
    /\ no_duplicate > 0 => ~recent_bitmap[i]

CandidateSet(gender) == {i \in DOMAIN students : IsCandidate(gender, i)}

\* C15: a successful pick(filter) with random draw k returns the k-th candidate in
\* index order (counting from 0), k being below the number of candidates; so the
\* participant returned is available, of the requested gender and outside the
\* no-repeat window.
C15_PickReturnsKthCandidate ==
    [][(last'.op = "pick" /\ last'.ok) =>
          /\ last'.target \in 0 .. (Cardinality(CandidateSet(last'.gender)) - 1)
          /\ last'.idx \in CandidateSet(last'.gender)
          /\ Cardinality({j \in CandidateSet(last'.gender) : j < last'.idx})
                 = last'.target]_vars

\* A pick by gender with the window on returned the second of several candidates.
C15_Witness ==
    /\ last.op = "pick" /\ last.ok
    /\ last.gender = MALE
    /\ last.target = 1
    /\ no_duplicate > 0
    /\ Len(recent_queue) = 2
    /\ Count(female_bitmap) > 0

\* C16: a successful pick with remove=True clears the available bit and sets the
\* picked bit of the participant returned and changes no other participant's bits;
\* a successful pick with remove=False changes neither bitmap.
C16_PickFrame ==
    [][(last'.op = "pick" /\ last'.ok) =>
          IF last'.remove
          THEN /\ ~bit_available'[last'.idx] /\ bit_picked'[last'.idx]
               /\ \A i \in DOMAIN students \ {last'.idx} :
                      /\ bit_available'[i] = bit_available[i]
                      /\ bit_picked'[i] = bit_picked[i]
          ELSE /\ bit_available' = bit_available
               /\ bit_picked' = bit_picked]_vars

\* A removing pick took one participant while another was already picked and a
\* third still available.
C16_Witness ==
    /\ last.op = "pick" /\ last.ok /\ last.remove
    /\ ~bit_available[last.idx] /\ bit_picked[last.idx]
    /\ \E i, j \in DOMAIN students \ {last.idx} :
           /\ bit_picked[i] /\ ~bit_available[i]
           /\ bit_available[j] /\ ~bit_picked[j]

\* C17: pick(filter) raises IndexError exactly when the filter has no candidate,
\* and a pick that raises leaves the available, picked and recent bitmaps and the
\* recent queue as they were.
C17_NoCandidatesIffEmpty ==
    [][last'.op = "pick" =>
          /\ ~last'.ok <=> (CandidateSet(last'.gender) = {})
          /\ ~last'.ok =>
                 /\ bit_available' = bit_available
                 /\ bit_picked' = bit_picked
                 /\ recent_bitmap' = recent_bitmap
                 /\ recent_queue' = recent_queue]_vars

\* A pick of a gender failed while participants of the other gender were available
\* and the recent window was not empty.
C17_Witness ==
    /\ last.op = "pick" /\ ~last.ok
    /\ last.gender # UNKNOWN
    /\ Count(bit_available) > 0
    /\ recent_queue # << >>
    /\ Count(bit_picked) > 0

\* Participant i is of the gender a filter names.
HasGender(gender, i) ==
    \/ gender = UNKNOWN
    \/ gender = FEMALE /\ female_bitmap[i]
    \/ gender = MALE /\ ~female_bitmap[i]

\* C18: reset(UNKNOWN) makes every participant available and not picked; reset of
\* a gender does so for the participants of that gender and leaves the available
\* and picked bits of all the others as they were.
C18_ResetFrame ==
    [][last'.op = "reset" =>
          \A i \in DOMAIN students :
              IF HasGender(last'.gender, i)
              THEN bit_available'[i] /\ ~bit_picked'[i]
              ELSE /\ bit_available'[i] = bit_available[i]
                   /\ bit_picked'[i] = bit_picked[i]]_vars

\* After reset(FEMALE) a male participant is still picked and unavailable.
C18_Witness ==
    /\ last.op = "reset" /\ last.gender = FEMALE
    /\ \E i \in DOMAIN students : female_bitmap[i] /\ bit_available[i]
    /\ \E i \in DOMAIN students :
           ~female_bitmap[i] /\ bit_picked[i] /\ ~bit_available[i]

\* C19: after reset(filter), whatever the filter, the recent queue is empty and the
\* recent bitmap all false; every participant that was in the queue and is
\* available, of either gender, is a candidate of the next pick.
C19_ResetClearsRecent ==
    last.op = "reset" =>
        /\ recent_queue = << >>
        /\ \A i \in DOMAIN students : ~recent_bitmap[i]
        /\ \A k \in 1 .. Len(last.queue_before) :
               bit_available[last.queue_before[k]] =>
                   IsCandidate(UNKNOWN, last.queue_before[k])

\* reset(FEMALE) with the window on, right after a male participant was picked:
\* he is a candidate again.
C19_Witness ==
    /\ last.op = "reset" /\ last.gender = FEMALE
    /\ no_duplicate > 0
    /\ last.queue_before # << >>
    /\ LET newest == last.queue_before[Len(last.queue_before)]
       IN ~female_bitmap[newest] /\ IsCandidate(MALE, newest)
    /\ Count(female_bitmap) > 0

\* C20: setting no_duplicate to a value stores max(0, value); for a size above 0
\* the recent queue afterwards is the last min(len, size) entries of the queue
\* before, in their order, and the recent bitmap marks exactly these; for size 0
\* both are empty.  The available and picked bitmaps do not change.
C20_ResizeKeepsNewest ==
    [][last'.op = "resize" =>
          LET size == IF last'.idx < 0 THEN 0 ELSE last'.idx
              kept == IF Len(recent_queue) < size THEN Len(recent_queue) ELSE size
          IN /\ no_duplicate' = size
             /\ Len(recent_queue') = kept
             /\ \A k \in 1 .. kept :
                    recent_queue'[k] = recent_queue[Len(recent_queue) - kept + k]
             /\ \A i \in DOMAIN students :
                    recent_bitmap'[i] <=>
                        \E k \in 1 .. kept : recent_queue'[k] = i
             /\ bit_available' = bit_available
             /\ bit_picked' = bit_picked]_vars

\* The window was shrunk from two entries to the newer one.
C20_Witness ==
    /\ last.op = "resize" /\ last.idx = 1
    /\ Len(last.queue_before) = 2
    /\ recent_queue = << last.queue_before[2] >>
    /\ last.queue_before[1] # last.queue_before[2]
    /\ recent_bitmap[last.queue_before[2]] /\ ~recent_bitmap[last.queue_before[1]]

----------------------------------------------------------------------------
\* Loading the configuration.

\* C21: a first load_cached that finds a readable, decodable config file returns
\* the file's mapping with the keys it lacks filled from DEFAULT_CONFIG; for a key
\* the file holds, the file's value is returned.
C21_LoadMergesDefaults ==
    (cfg_obs.op = "load" /\ cfg_obs.pre.cache = None /\ cfg_obs.pre.file.kind = "json") =>
        LET persisted == Loads(cfg_obs.pre.file.text)
        IN /\ DOMAIN cfg_obs.value = DOMAIN DEFAULT_CONFIG \cup DOMAIN persisted
           /\ \A k \in DOMAIN cfg_obs.value :
                  cfg_obs.value[k] = IF k \in DOMAIN persisted THEN persisted[k]
                                     ELSE DEFAULT_CONFIG[k]

----------------------------------------------------------------------------
\* The object specification: callers load the configuration, change the mappings
\* they got and save them.

ObjSpecInit == ObjInit /\ PoolIdle /\ ConfigIdle /\ LoadIdle /\ SaveIdle /\ UiIdle /\ FwIdle /\ WinIdle

NameItems == {<< "A" >>}

ObjNext ==
    /\ \/ \E c \in Callers, io \in {"ok", "write_fails"} : ObjLoadCached(c, io)
       \/ \E c \in Callers, value \in BOOLEAN :
              ObjSetItem(c, IF value THEN 1 ELSE 0)
       \/ \E c \in Callers, name \in NameItems : ObjAppendName(c, name)
       \/ \E c \in Callers, io \in {"ok", "write_fails"} : ObjSaveAtomic(c, io)
       \/ \E c \in Callers : ObjRelease(c)
    /\ UNCHANGED << poolVars, obsVars, cfgVars, loadVars, saveVars, uiVars, fwVars, winVars >>

ObjSpec == ObjSpecInit /\ [][ObjNext]_vars

\* What DEFAULT_CONFIG held when the class body had run.
DefaultValue == [revision |-> 0, picked_count |-> 0, names |-> << >>]

\* C22: a load that cannot read or decode the config file returns exactly the
\* defaults, with no value of the file in it, and DEFAULT_CONFIG (its nested list
\* included) holds at all times what it held at the start, whatever callers do
\* with the mappings returned to them.
C22_DefaultsUntouched ==
    /\ DeepValue(heap, DefaultRef) = DefaultValue
    /\ (obj_last.op = "load" /\ obj_file.kind # "object") =>
           obj_last.value = DefaultValue

\* The file is undecodable, so the cache is DEFAULT_CONFIG.copy() and shares its
\* list with DEFAULT_CONFIG; a caller has appended a name to the list of the
\* mapping returned to it.
C22_Witness ==
    /\ obj_file.kind = "garbage"
    /\ obj_cache # NoRef
    /\ heap[obj_cache].names = DefaultNamesRef
    /\ obj_last.op = "append"
    /\ held[obj_last.caller].origin = "default"
    /\ HeldValue(obj_last.caller).names # << >>

\* C23: what load_cached returns is a copy of its own: when a caller changes the
\* mapping it holds (a scalar, or the nested saved_available_names list in place),
\* the cache and the mapping any other caller holds keep their content, and a
\* load_cached made afterwards returns the cache's content; the change reaches the
\* cache only through a save_atomic of that mapping that writes.
C23_ReturnedCopiesIndependent ==
    [][/\ (obj_last'.op \in {"setitem", "append"}) =>
              /\ CacheValue' = CacheValue
              /\ \A c \in Callers \ {obj_last'.caller} : HeldValue(c)' = HeldValue(c)
       /\ (obj_last'.op = "load" /\ obj_cache # NoRef) =>
              /\ obj_last'.value = CacheValue
              /\ CacheValue' = CacheValue
       /\ (obj_last'.op = "save" /\ obj_last'.outcome # "written") =>
              CacheValue' = CacheValue]_vars

\* Two callers hold mappings that differ from each other and from the cache: one
\* appended a name to its list after the other had changed its count.
C23_Witness ==
    /\ obj_last.op = "append"
    /\ obj_cache # NoRef
    /\ \A c \in Callers : held[c].ref # NoRef
    /\ HeldValue("flush") # HeldValue("dialog")
    /\ \A c \in Callers : HeldValue(c) # CacheValue
    /\ HeldValue("dialog").picked_count # CacheValue.picked_count

----------------------------------------------------------------------------
\* The save requests, the debounce timer and the flush, step by step:
\* save_obs'.call names the handler of the step, the unprimed variables are the
\* state before it.

C25_FlushAfterQuietDelay ==
    (save_obs.call = "timeout" /\ save_obs.op = "flush") =>
        /\ last_req.age >= CONFIG_SAVE_DELAY
        /\ save_queue = {}

\* The timer has flushed two reasons: the second request came while the timer of
\* the first was pending.
C25_Witness ==
    /\ save_obs.call = "timeout" /\ save_obs.op = "flush"
    /\ save_obs.reasons = {"geometry", "state"}
    /\ save_obs.outcome = "written"
    /\ last_req.age >= CONFIG_SAVE_DELAY

\* C26 as stated: when the timer expires less than MIN_INTERVAL after the last
\* flush, the callback is not run and the timer is armed again for the remaining
\* time; otherwise the callback runs, and the last-flush time is set only by a
\* flush that succeeded.
C26_StampOfSuccessfulFlush ==
    [][save_obs'.call = "timeout" =>
          IF now - last_flush_time < MIN_INTERVAL
          THEN /\ save_obs'.op = "none"
               /\ timer_active' /\ is_pending'
               /\ timer_deadline' = last_flush_time + MIN_INTERVAL
               /\ UNCHANGED << last_flush_time, save_queue, config_file >>
          ELSE /\ save_obs'.op = "flush"
               /\ (app_alive' /\ last_flush_time' # last_flush_time) =>
                      save_obs'.outcome # "raised"]_vars

\* The fields a flush of the pending reasons would change: those whose value in
\* the program differs from the cached configuration.
ChangedFields(reasons) ==
    {k \in {KEY_WINDOW_GEOMETRY_QT} :
        "geometry" \in reasons /\ config_cache[k] # GeometryData(geometry)}
      \cup {k \in {KEY_PICKED_COUNT} :
              reasons \cap {"state", "floating"} # {} /\ config_cache[k] # ui_picked_count}

C28_StopCancelsFlush ==
    [][/\ save_obs'.call = "stop" =>
              /\ ~timer_active' /\ ~is_pending'
              /\ UNCHANGED << config_file, tmp_file, config_cache, last_save_hash,
                              save_queue >>
       /\ save_obs'.call = "timeout" => timer_active
       /\ (~timer_active /\ timer_active') => save_obs'.call = "request"
       /\ (~timer_active /\ config_file' # config_file) =>
              save_obs'.call \in {"request", "close", "final"}]_vars

\* closeEvent has stopped the timer while reasons were pending, some time after
\* the request.
C28_Witness ==
    /\ save_obs.call = "stop"
    /\ save_queue # {}
    /\ ~timer_active
    /\ last_req.age > 0 /\ last_req.age < CONFIG_SAVE_DELAY

----------------------------------------------------------------------------
\* The window specification: clicks on the pick and reset buttons, the repeat
\* checkbox, applied configurations, the animation timer and the speech thread.
UiSpecInit == UiInit /\ PoolIdle /\ ConfigIdle /\ LoadIdle /\ SaveIdle /\ ObjIdle /\ FwIdle /\ WinIdle

UiNext ==
    /\ \/ PickName
       \/ \E elapsed \in BOOLEAN : UpdateAnimation(elapsed)
       \/ ResetWithConfirm
       \/ \E yes \in BOOLEAN : ResetDialogFinished(yes)
       \/ ToggleRepeat
       \/ \E no_dup_changed \in BOOLEAN, open_text \in BOOLEAN :
             ConfigApplied(no_dup_changed, open_text)
       \/ \E outcome \in {"ok", "raised"} : SpeechRun(outcome)
       \/ SpeechExit
       \/ SpeechFinished
    /\ UNCHANGED << poolVars, obsVars, cfgVars, loadVars, saveVars, objVars, fwVars, winVars >>

UiSpec == UiSpecInit /\ [][UiNext]_vars

\* C29: a call of _speak_name_async made while a speech thread is running changes
\* nothing about the thread and queues nothing (a new thread is started only by
\* such a call made while none is running), and a thread that has run, whether the
\* engine spoke or raised, has emitted finished exactly once.
C29_SpeechWorkerContract ==
    [][/\ (ui_obs'.speak /\ isRunning(speech_thread))
            => /\ speech_thread' = speech_thread
               /\ finished_events' = finished_events
       /\ (speech_thread'.id # speech_thread.id)
            => /\ ui_obs'.speak
               /\ ~isRunning(speech_thread)
               /\ speech_thread'.state = "running"
       /\ (speech_thread' # speech_thread /\ speech_thread'.id = speech_thread.id)
            => ~ui_obs'.speak
       /\ speech_thread'.emits = IF speech_thread'.state \in {"ending", "finished"}
                                 THEN 1 ELSE 0
       /\ (speech_thread.state = "running" /\ speech_thread'.state = "ending")
            => finished_events' = finished_events + 1
      ]_vars

\* A result is displayed while the thread of an earlier pick, whose engine raised,
\* has emitted finished and not yet returned.
C29_Witness ==
    /\ ui_obs.speak /\ ui_obs.busy
    /\ speech_thread.state = "ending" /\ speech_thread.emits = 1

\* C30: between the start of _pick_name and the end of the pick's completion path
\* (the display of the result and, when a speech thread was started for it, the
\* delivery of its finished signal) no pick and no reset is started.
C30_NoPickOrResetInBetween ==
    [][ui_obs'.call \in {"pick", "pick_empty", "reset"} /\ ui_obs' # ui_obs
         => pick_pc = "idle"]_vars

----------------------------------------------------------------------------
\* Claims about loading the roster (LoadSpec), continued.

\* C31: a roster that yields no student makes the load end with the pool's error
\* as a result handed to the caller; the loader is not left by an exception that
\* nothing handles.
C31_EmptyRosterReported ==
    (AllStudents = << >> /\ InvalidFemale(AllStudents, FemaleStudents) = {})
        => load_pc # "crashed"

\* The stripped texts of the students of a list.
DisplayNames(student_list) ==
    {student_list[k].display_name : k \in 1 .. Len(student_list)}

\* C32: a pass of the loader over files in which every female entry equals, after
\* stripping, a roster entry finds no invalid female name.
C32_SubsetMatchesStripped ==
    [][(load_obs'.attempts > load_obs.attempts
        /\ DisplayNames(FemaleStudents) \subseteq DisplayNames(AllStudents))
         => load_obs'.invalid = {}]_vars

\* C33: after a repair that reported success the two files are consistent for the
\* loader, and the loader never gives up for having used all its retries.
C33_RepairedLoadSucceeds ==
    /\ retry_count > 0 => InvalidFemale(AllStudents, FemaleStudents) = {}
    /\ ~(load_pc = "exit" /\ retry_count > MAX_RETRIES)

----------------------------------------------------------------------------
\* Claims about the pool (PoolSpec), continued.

\* C34: in every state of the pool the picked bitmap is the complement of the
\* available bitmap, and for every filter get_stats gives available + picked = total.
C34_PickedComplementsAvailable ==
    /\ bit_picked = BitNot(bit_available)
    /\ \A g \in Gender : get_stats(g)[2] + get_stats(g)[3] = get_stats(g)[1]

\* A removing pick has just taken a student while a female one was picked before
\* and others are still available.
C34_Witness ==
    /\ last.op = "pick" /\ last.ok /\ last.remove
    /\ get_stats(FEMALE)[3] > 0
    /\ get_stats(MALE)[3] > 0
    /\ Count(bit_available) > 0

----------------------------------------------------------------------------
\* Claims about the configuration (ConfigSpec), continued.

\* C35: once a first load_cached has read a decodable config file, and the save
\* inside it did not fail, the cached mapping is the mapping the file now holds,
\* _revision included, and saving the cached mapping unchanged writes nothing.
C35_CacheEqualsFile ==
    (/\ cfg_obs.op = "load" /\ cfg_obs.pre.cache = None
     /\ cfg_obs.pre.file.kind = "json" /\ cfg_obs.outcome # "raised") =>
        /\ config_file.kind = "json"
        /\ config_cache = Loads(config_file.text)
        /\ save_atomic(ConfigState, config_cache, "ok").outcome = "noop"

----------------------------------------------------------------------------
\* The floating-window specification: the manager is initialized, the
\* configuration page saves, the window's state is flushed and the window is
\* closed to the floating window.
FwSpecInit ==
    ConfigInit /\ FwInit /\ PoolIdle /\ LoadIdle /\ SaveIdle /\ ObjIdle /\ UiIdle
        /\ WinIdle

FwNext ==
    /\ \/ \E io \in {"ok", "write_fails"} : ManagerInitialize(io)
       \/ \E size \in FloatSizes, count \in 0 .. MaxValue, io \in IoOutcomes :
              ConfigPageSave(size, count, io)
       \/ \E count \in 0 .. MaxValue, io \in IoOutcomes : FlushState(count, io)
       \/ \E io \in IoOutcomes : Trayify(io)
    /\ UNCHANGED << poolVars, obsVars, loadVars, saveVars, objVars, uiVars, winVars >>

FwSpec == FwSpecInit /\ [][FwNext]_vars

----------------------------------------------------------------------------
\* PickName._rebuild_student_pool: a new pool is built from the old one's roster and
\* female students with the window's no_duplicate, the available names are
\* restored, and the old recent bitmap is copied into it.

\* The pool object the pool variables hold.
PoolState ==
    [students      |-> students,
     name_to_idx   |-> name_to_idx,
     female_bitmap |-> female_bitmap,
     bit_available |-> bit_available,
     bit_picked    |-> bit_picked,
     no_duplicate  |-> no_duplicate,
     recent_queue  |-> recent_queue,
     recent_bitmap |-> recent_bitmap]

\* get_all_students(): the roster as a list.
get_all_students(pool) ==
    [k \in 1 .. Cardinality(DOMAIN pool.students) |-> pool.students[k - 1]]

\* The indices of a set in rising order.
RECURSIVE Rising(_)
Rising(indices) ==
    IF indices = {} THEN << >>
    ELSE LET least == CHOOSE i \in indices : \A j \in indices : i <= j
         IN << least >> \o Rising(indices \ {least})

\* get_female_students(): the students whose female bit is set, by index.
get_female_students(pool) ==
    LET hits == Rising({i \in DOMAIN pool.students : pool.female_bitmap[i]})
    IN [k \in 1 .. Len(hits) |-> pool.students[hits[k]]]

\* get_available_names() of a pool object.
AvailableNames(pool) ==
    {pool.students[i].original_name : i \in {k \in DOMAIN pool.students : pool.bit_available[k]}}

\* The pool _rebuild_student_pool leaves behind for the old pool and the window's
\* no_duplicate.
rebuild_pool(old, nd) ==
    LET fresh == NewPool(get_all_students(old), get_female_students(old), nd)
        found == {fresh.name_to_idx[n] : n \in AvailableNames(old) \cap DOMAIN fresh.name_to_idx}
    IN [fresh EXCEPT !.bit_available = [i \in DOMAIN old.students |-> i \in found],
                     !.bit_picked = [i \in DOMAIN old.students |-> i \notin found],
                     !.recent_bitmap = IF nd > 0 THEN old.recent_bitmap ELSE @]

RebuiltPool(nd) == rebuild_pool(PoolState, nd)

RebuildPool(nd) ==
    /\ \E pool \in {RebuiltPool(nd)} :
          /\ students' = pool.students
          /\ name_to_idx' = pool.name_to_idx
          /\ female_bitmap' = pool.female_bitmap
          /\ bit_available' = pool.bit_available
          /\ bit_picked' = pool.bit_picked
          /\ no_duplicate' = pool.no_duplicate
          /\ recent_queue' = pool.recent_queue
          /\ recent_bitmap' = pool.recent_bitmap
    /\ last' = [NoCall EXCEPT !.op = "rebuild"]
    /\ window' = << >>
    /\ UNCHANGED taken

\* The rebuild specification: a pool that is picked from, reset and rebuilt.
RebuildNext ==
    /\ \/ \E gender \in Gender, remove \in BOOLEAN : PickOk(gender, remove)
       \/ \E gender \in Gender, remove \in BOOLEAN : PickFail(gender, remove)
       \/ \E gender \in Gender : Reset(gender)
       \/ \E nd \in 0 .. MaxNoDup : RebuildPool(nd)
    /\ UNCHANGED << cfgVars, loadVars, saveVars, objVars, uiVars, fwVars, winVars >>

RebuildSpec == PoolInit /\ [][RebuildNext]_vars

\* C37: a rebuild leaves the roster, the female bitmap and the available bitmap as
\* they were, and every student the new pool marks as recent is in the new pool's
\* recent queue.
C37_RebuildKeepsPool ==
    [][last'.op = "rebuild" =>
          /\ students' = students
          /\ female_bitmap' = female_bitmap
          /\ bit_available' = bit_available
          /\ \A i \in DOMAIN recent_bitmap' :
                 recent_bitmap'[i] => i \in Range(recent_queue')]_vars

\* The window under fair scheduling: a running animation timer reaches its
\* duration, a started speech thread runs and ends, and the event loop delivers a
\* queued finished signal. Nothing is assumed about what the user does.
UiFairSpec ==
    /\ UiSpec
    /\ WF_vars(UNCHANGED << poolVars, obsVars, cfgVars, loadVars, saveVars, objVars, fwVars, winVars >>
               /\ UpdateAnimation(TRUE))
    /\ WF_vars(UNCHANGED << poolVars, obsVars, cfgVars, loadVars, saveVars, objVars, fwVars, winVars >>
               /\ \E outcome \in {"ok", "raised"} : SpeechRun(outcome))
    /\ WF_vars(UNCHANGED << poolVars, obsVars, cfgVars, loadVars, saveVars, objVars, fwVars, winVars >>
               /\ SpeechExit)
    /\ WF_vars(UNCHANGED << poolVars, obsVars, cfgVars, loadVars, saveVars, objVars, fwVars, winVars >>
               /\ SpeechFinished)

\* C39: after a successful pick the pick button is enabled again at some later
\* point, whatever the timer, the speech thread, applied configurations and the
\* user do in between.
C39_PickReenabled == (ui_obs.call = "pick") ~> pick_button

----------------------------------------------------------------------------
\* PickName's no_duplicate: _load_student_data reads it from the configuration and
\* clamps it, _on_toggle_repeat and _on_config_applied assign it and rebuild the
\* pool, reset() loads the files again.

\* _load_student_data: the configured value, reduced to total - 1 when it is not
\* below the roster size.
load_no_duplicate(configured, total) ==
    IF configured >= total THEN Max(0, total - 1) ELSE configured

\* _rebuild_student_pool: with the checkbox checked and no_duplicate 0 the cached
\* value is taken.
rebuild_no_duplicate(checked, nd, cache) ==
    IF checked /\ nd = 0 THEN cache ELSE nd

\* The pool _load_student_data builds from the unchanged files.
LoadedPool(old) == NewPool(get_all_students(old), get_female_students(old), 0)

PoolBecomes(pool) ==
    /\ students' = pool.students
    /\ name_to_idx' = pool.name_to_idx
    /\ female_bitmap' = pool.female_bitmap
    /\ bit_available' = pool.bit_available
    /\ bit_picked' = pool.bit_picked
    /\ no_duplicate' = pool.no_duplicate
    /\ recent_queue' = pool.recent_queue
    /\ recent_bitmap' = pool.recent_bitmap

\* What the observations record of a pool that replaced the one before.
Replaced(op) ==
    /\ last' = [NoCall EXCEPT !.op = op]
    /\ window' = << >>
    /\ taken' = [i \in DOMAIN students |-> 0]

\* A click on the pick button: pick(current_gender, remove=not allow_repeat).
WinPick(gender) ==
    /\ \/ PickOk(gender, ~pick_again_checked)
       \/ PickFail(gender, ~pick_again_checked)
    /\ UNCHANGED winVars

\* reset(): the lists are loaded again into a pool of the constructor's default
\* no_duplicate, and self.no_duplicate is read from the configuration and clamped.
WinReset ==
    /\ PoolBecomes(LoadedPool(PoolState))
    /\ Replaced("new")
    /\ self_no_duplicate' = load_no_duplicate(config_no_duplicate, Total)
    /\ UNCHANGED << no_duplicate_cache, pick_again_checked, config_no_duplicate >>

\* _on_toggle_repeat: a silent reset, then the configured value (checked) or 0
\* with the old value cached (unchecked), then a rebuild.
WinToggleRepeat ==
    LET is_checked == ~pick_again_checked
        loaded == load_no_duplicate(config_no_duplicate, Total)
        assigned == IF is_checked THEN config_no_duplicate ELSE 0
        cache == IF is_checked THEN no_duplicate_cache ELSE loaded
        nd == rebuild_no_duplicate(is_checked, assigned, cache)
    IN /\ pick_again_checked' = is_checked
       /\ no_duplicate_cache' = cache
       /\ self_no_duplicate' = nd
       /\ PoolBecomes(rebuild_pool(LoadedPool(PoolState), nd))
       /\ Replaced("rebuild")
       /\ UNCHANGED config_no_duplicate

\* ConfigWindow.save_config stores the value of the edit field, which its validator
\* keeps within 0 .. max(0, total - 1), and _on_config_applied assigns it and
\* rebuilds the pool when it differs from self.no_duplicate.
WinConfigApplied(value) ==
    /\ value <= Max(0, Total - 1)
    /\ config_no_duplicate' = value
    /\ IF value # self_no_duplicate
       THEN LET nd == rebuild_no_duplicate(pick_again_checked, value, no_duplicate_cache)
            IN /\ self_no_duplicate' = nd
               /\ PoolBecomes(rebuild_pool(PoolState, nd))
               /\ last' = [NoCall EXCEPT !.op = "rebuild"]
               /\ window' = << >>
               /\ UNCHANGED taken
       ELSE UNCHANGED << poolVars, obsVars, self_no_duplicate >>
    /\ UNCHANGED << no_duplicate_cache, pick_again_checked >>

\* The window after PickName.__init__: the lists are loaded, the configured
\* no_duplicate is clamped and the pool rebuilt with it; the checkbox is set as saved.
WinInit ==
    \E roster_lines \in RosterFiles, female_lines \in LoadFemaleFiles,
       configured \in 0 .. MaxNoDup, checked \in BOOLEAN :
        LET all_students == parse_student_file(roster_lines, UNKNOWN)
            female_students == parse_student_file(female_lines, FEMALE)
            nd == load_no_duplicate(configured, Len(all_students))
        IN /\ InvalidFemale(all_students, female_students) = {}
           /\ PoolIs(rebuild_pool(NewPool(all_students, female_students, 0), nd))
           /\ last = NoCall
           /\ taken = [i \in Indices(Len(all_students)) |-> 0]
           /\ window = << >>
           /\ self_no_duplicate = nd
           /\ no_duplicate_cache = 0
           /\ pick_again_checked = checked
           /\ config_no_duplicate = configured
           /\ ConfigIdle
           /\ LoadIdle
           /\ SaveIdle
           /\ ObjIdle
           /\ UiIdle
           /\ FwIdle

WinNext ==
    /\ \/ \E gender \in Gender : WinPick(gender)
       \/ WinReset
       \/ WinToggleRepeat
       \/ \E value \in 0 .. MaxNoDup : WinConfigApplied(value)
    /\ UNCHANGED << cfgVars, loadVars, saveVars, objVars, uiVars, fwVars >>

WinSpec == WinInit /\ [][WinNext]_vars

\* C40: a pick that allows repeats on a pool with every student available fails
\* only when no more than no_duplicate students match the filter, and the pool's
\* no_duplicate is below the roster size.
C40_NoDuplicateBelowRoster ==
    /\ (last.op = "pick" /\ ~last.ok /\ ~last.remove /\ Count(bit_available) = Total)
           => get_stats(last.gender)[1] <= no_duplicate
    /\ no_duplicate < Total

----------------------------------------------------------------------------
\* The save layer with writes that succeed, under fair scheduling.

\* A request is made only while the clock of the model has room for the flush it
\* leads to: the later of the debounce delay and the minimum interval.
FlushInTime ==
    /\ Max(now + CONFIG_SAVE_DELAY, last_flush_time + MIN_INTERVAL) <= MaxTime
    /\ Revision(config_cache) < MaxRevision

SaveFairNext ==
    /\ \/ FlushInTime /\ \E blob \in Geometries : ResizeEvent(blob)
       \/ FlushInTime /\ \E blob \in Geometries : MoveEvent(blob)
       \/ MousePressEvent
       \/ \E blob \in Geometries : MouseMoveEvent(blob)
       \/ FlushInTime /\ \E blob \in Geometries : MouseReleaseEvent(blob)
       \/ FlushInTime /\ \E value \in ConfigValues : SaveApplicationState(value)
       \/ Timeout("ok", TRUE)
       \/ Tick
       \/ CloseStop
       \/ CloseFlush("ok", TRUE)
       \/ CloseFinal("ok", TRUE)
    /\ UNCHANGED << poolVars, obsVars, loadVars, objVars, uiVars, fwVars, winVars >>

\* Time passes, a due timer fires, and closeEvent runs to its end.
SaveFairSpec ==
    /\ SaveInit
    /\ [][SaveFairNext]_vars
    /\ WF_vars(Tick /\ UNCHANGED << poolVars, obsVars, loadVars, objVars, uiVars,
                                    fwVars, winVars >>)
    /\ WF_vars(Timeout("ok", TRUE) /\ UNCHANGED << poolVars, obsVars, loadVars, objVars,
                                                   uiVars, fwVars, winVars >>)
    /\ WF_vars(CloseFlush("ok", TRUE) /\ UNCHANGED << poolVars, obsVars, loadVars,
                                                      objVars, uiVars, fwVars, winVars >>)
    /\ WF_vars(CloseFinal("ok", TRUE) /\ UNCHANGED << poolVars, obsVars, loadVars,
                                                      objVars, uiVars, fwVars, winVars >>)

\* C38: a queue of save reasons is emptied at some later point, and once closeEvent
\* is past its flush no reason is pending.
C38_EveryRequestFlushed ==
    /\ (save_queue # {}) ~> (save_queue = {})
    /\ [](close_pc \in {"flushed", "hidden"} => save_queue = {})

\* The timer flushed a reason after it was re-armed for the minimum interval.
C38_Witness ==
    /\ save_obs.call = "timeout"
    /\ save_obs.op = "flush"
    /\ "geometry" \in save_obs.reasons
    /\ save_queue = {}
    /\ last_flush_time >= MIN_INTERVAL

====
